---- MODULE Spec2Model ----
(***************************************************************************)
(* pyrs-schema: the conversion walk of types.Object (to_python / to_raw),  *)
(* the scalar Date conversions it calls, the declarative collectors of     *)
(* base.DeclarativeMetaclass and schema.DeclarativeSchemaMetaclass, the    *)
(* rendering and caching of base.Base (get_schema / make_schema) with      *)
(* Object.extend, the attributes of a node (Schema.get), and the validator *)
(* adapters of schemaio.                                                   *)
(*                                                                         *)
(* Values.  Every Python value is a tagged record:                         *)
(*   [t |-> "str",  s |-> text]    a text                                  *)
(*   [t |-> "date", s |-> d]       a native datetime.date                  *)
(*   [t |-> "none", s |-> ""]      None                                    *)
(*   [t |-> "map",  m |-> f]       a dict, f a function from keys          *)
(*   [t |-> "hook", s, saw]        what a setvalue / getvalue hook returns *)
(* A dotted error path 'k1.k2' is the sequence <<"k1", "k2">>, '' is <<>>. *)
(***************************************************************************)
EXTENDS Integers, Sequences, FiniteSets, TLC

VARIABLES
    schema,      \* the types.Object instance conversions are called on
    op,          \* the last call: "none", "to_python", "to_raw"
    passed,      \* the map the caller passed to the last call
    caller,      \* the caller's map object after the last call
    outcome,     \* "none", "returned", "raised"
    result,      \* the returned value (NoResult when raised)
    errors,      \* the error list of the raised ValidationErrors
    log,         \* the steps the outermost call performed, in order
    creation_index,  \* Schema._creation_index, the process-wide counter
    nodes,       \* the nodes constructed so far: nodes[n] is node n's _creation_index
    classes,     \* the composite classes created so far, in creation order
    schemas,     \* the class statements run under DeclarativeSchemaMetaclass, in order
    _fields,     \* cls._fields of the composite classes: class name -> ordered table
    objs,        \* the node instances: objs[i] is [cls, attrs] of instance i
    _schema,     \* instance i's cached schema (NoSchema when unset or None)
    _validator,  \* the schema instance i's cached validator was compiled from
    call,        \* the last rendering / validation call and what it gave
    acls,        \* the node classes created for their attributes, in order
    got,         \* the last attribute lookup and the value it gave
    vcall,       \* the last validate() call of a validator adapter
    checked,     \* the last evaluation of the type and format rules on an instance
    io,          \* the last call of a reader, writer or form reader
    threads,     \* the threads constructing nodes: each one's position in Schema.__init__
    scalar       \* the last conversion of a value by a scalar leaf type

convVars == <<schema, op, passed, caller, outcome, result, errors, log>>
declVars == <<creation_index, nodes, classes>>
renderVars == <<_fields, objs, _schema, _validator, call>>
attrVars == <<acls, got>>
lateVars == <<checked, io, threads, scalar>>

vars == <<schema, op, passed, caller, outcome, result, errors, log,
          creation_index, nodes, classes, schemas,
          _fields, objs, _schema, _validator, call, acls, got, vcall,
          checked, io, threads, scalar>>

(***************************************************************************)
(* Bounds                                                                  *)
(***************************************************************************)
MaxDepth == 2        \* nesting levels of composites (root included)
MaxInputKeys == 3    \* largest number of keys of one input map
MaxNodes == 3        \* nodes constructed in one behaviour
MaxClasses == 2      \* composite classes created in one behaviour

(***************************************************************************)
(* Values and dict primitives                                              *)
(***************************************************************************)
Str(s) == [t |-> "str", s |-> s]
DateV(s) == [t |-> "date", s |-> s]
None == [t |-> "none", s |-> ""]
Map(f) == [t |-> "map", m |-> f]
NoResult == [t |-> "noresult", s |-> ""]
EmptyMap == <<>>

Put(m, k, v) == [x \in (DOMAIN m) \cup {k} |-> IF x = k THEN v ELSE m[x]]
Pop(m, k) == [x \in (DOMAIN m) \ {k} |-> m[x]]
\* dict.update: the keys of src overwrite those of dst
Update(dst, src) ==
    [x \in (DOMAIN dst) \cup (DOMAIN src) |-> IF x \in DOMAIN src THEN src[x] ELSE dst[x]]

\* dict.copy(): a fresh dict object with the same items (shallow)
copy_alias(m) == [alias |-> TRUE, m |-> m]
copy(m) == [alias |-> FALSE, m |-> m]

(***************************************************************************)
(* Nodes: [kind, attrs, fields]; attrs is the node's _attrs mapping and    *)
(* fields the ordered field table <<[key, node], ...>> (_fields).          *)
(***************************************************************************)
has_attr(node, a) == a \in DOMAIN node.attrs
get_attr(node, a, default) == IF a \in DOMAIN node.attrs THEN node.attrs[a] ELSE default

\* the field is left out of the wire output: hidden, or filtered out by the
\* owning composite's exclude list
is_excluded(parent, key, node) ==
    \/ get_attr(node, "hidden", FALSE)
    \/ key \in get_attr(parent, "exclude", {})

\* a computed-value hook: a function of the field and of the map it is given
Hook(key, data) ==
    [t |-> "hook", s |-> key, saw |-> IF key \in DOMAIN data THEN data[key] ELSE None]

(***************************************************************************)
(* exceptions.ValidationError and the external ISO-8601 parser             *)
(***************************************************************************)
ValidationError(value, invalid, against) ==
    [value |-> value, invalid |-> invalid, against |-> against, path |-> <<>>]

IsoDateTexts == {"d1", "d2"}      \* the texts isodate.parse_date accepts
parse_date(s) == DateV(s)
date_isoformat(d) == Str(d.s)

Ok(v) == [ok |-> TRUE, val |-> v, errors |-> <<>>, arg |-> v, log |-> <<>>]
Fail(v, errs) == [ok |-> FALSE, val |-> NoResult, errors |-> errs, arg |-> v, log |-> <<>>]

Date_to_python(value) ==
    IF value.t = "date" THEN Ok(value)
    ELSE IF value.t = "str" /\ value.s \in IsoDateTexts
         THEN [Ok(parse_date(value.s)) EXCEPT !.arg = value]
         ELSE Fail(value, <<ValidationError(value, "format", "date")>>)

Date_to_raw(value) ==
    IF value.t = "date" THEN [Ok(date_isoformat(value)) EXCEPT !.arg = value]
    ELSE IF value.t = "str"
         THEN IF Date_to_python(value).ok THEN Ok(value) ELSE Date_to_python(value)
         ELSE Fail(value, <<ValidationError(value, "type", "date")>>)

\* String (and every leaf that does not override): the value passes through
Base_to_python(value) == Ok(value)
Base_to_raw(value) == Ok(value)

(***************************************************************************)
(* Object._update_errors_by_exception                                      *)
(***************************************************************************)
_update_errors_by_exception_first(errs, ex, name) ==
    Append(errs, ex[1])
_update_errors_by_exception(errs, ex, name) ==
    errs \o [i \in 1..Len(ex) |->
                IF ex[i].path # <<>>
                THEN [ex[i] EXCEPT !.path = <<name>> \o @]
                ELSE ex[i]]

Ev(e, k) == [ev |-> e, key |-> k]

\* res[field] = schema.to_python(...): to_python stores under the field name
PyStoreKey_wire(field, name) == name
PyStoreKey(field, name) == field

\* res.update(value): the keys left in the working dict are copied to res
PassThrough_drop(res, rest) == res
PassThrough(res, rest) == Update(res, rest)

\* if <key> not in res and schema.has_attr('fallback')
NeedsFallback_always(res, key, node) == has_attr(node, "fallback")
NeedsFallback(res, key, node) == key \notin DOMAIN res /\ has_attr(node, "fallback")

\* res[<key>] = schema.setvalue(schema, res) / field.getvalue(field, value)
ApplyHook_keep(res, key, field, data) ==
    IF key \in DOMAIN res THEN res ELSE Put(res, key, Hook(field, data))
ApplyHook(res, key, field, data) == Put(res, key, Hook(field, data))

\* if field.is_excluded and name in res: del res[name]
Exclude_skip(res, name, excluded) == res
Exclude(res, name, excluded) ==
    IF excluded /\ name \in DOMAIN res THEN Pop(res, name) ELSE res

(***************************************************************************)
(* types.Object.to_python / to_raw.  The walk state st holds the working   *)
(* dict (value / src), the caller's dict object (orig; the same object as  *)
(* the working dict when alias), res, errors and the log of steps.         *)
(***************************************************************************)
RECURSIVE to_python(_, _), to_raw(_, _, _)
RECURSIVE PyDerive(_, _, _), PyFill(_, _, _), RawDerive(_, _, _, _), RawFill(_, _, _)

\* first loop of to_python: for field, schema in self._fields.items()
PyDerive(node, i, st) ==
    IF i > Len(node.fields) THEN st
    ELSE LET field == node.fields[i].key
             sch == node.fields[i].node
             name == get_attr(sch, "name", field)
         IN  IF name \in DOMAIN st.value
             THEN LET r == to_python(sch, st.value[name])
                      value2 == Pop(st.value, name)
                      orig2 == IF st.alias THEN value2
                               ELSE [st.orig EXCEPT ![name] = r.arg]
                  IN  IF r.ok
                      THEN PyDerive(node, i + 1,
                               [st EXCEPT !.value = value2, !.orig = orig2,
                                          !.res = Put(st.res, PyStoreKey(field, name), r.val),
                                          !.log = Append(@, Ev("derive", field))])
                      ELSE PyDerive(node, i + 1,
                               [st EXCEPT !.value = value2, !.orig = orig2,
                                          !.errors = _update_errors_by_exception(@, r.errors, name),
                                          !.log = Append(@, Ev("error", field))])
             ELSE PyDerive(node, i + 1, st)

\* second loop of to_python: fallback, then the setvalue hook
PyFill(node, i, st) ==
    IF i > Len(node.fields) THEN st
    ELSE LET field == node.fields[i].key
             sch == node.fields[i].node
             st1 == IF NeedsFallback(st.res, field, sch)
                    THEN [st EXCEPT !.res = Put(@, field, get_attr(sch, "fallback", None)),
                                    !.log = Append(@, Ev("fallback", field))]
                    ELSE st
             st2 == IF has_attr(sch, "setvalue")
                    THEN [st1 EXCEPT !.res = ApplyHook(@, field, field, st1.res),
                                     !.log = Append(@, Ev("hook", field))]
                    ELSE st1
         IN  PyFill(node, i + 1, st2)

\* _raise_exception_when_errors, then return res
Finish(st) ==
    IF st.errors # <<>>
    THEN [ok |-> FALSE, val |-> NoResult, errors |-> st.errors,
          arg |-> Map(st.orig), log |-> Append(st.log, Ev("raise", ""))]
    ELSE [ok |-> TRUE, val |-> Map(st.res), errors |-> <<>>,
          arg |-> Map(st.orig), log |-> Append(st.log, Ev("return", ""))]

Object_to_python(node, value) ==
    LET c == copy(value.m)
        st0 == [value |-> c.m, orig |-> value.m, alias |-> c.alias,
                res |-> EmptyMap, errors |-> <<>>, log |-> <<>>]
        st1 == PyDerive(node, 1, st0)
        st2 == [st1 EXCEPT !.res = PassThrough(st1.res, st1.value),
                           !.log = Append(@, Ev("update", ""))]
    IN  Finish(PyFill(node, 1, st2))

to_python(node, value) ==
    CASE node.kind = "object" -> Object_to_python(node, value)
      [] node.kind = "date" -> Date_to_python(value)
      [] OTHER -> Base_to_python(value)

\* list(set(src) & set(self._fields)): the field indexes whose key is in src,
\* in the iteration order of the set, which ord (a permutation) stands for
SetOrder(node, src, ord) ==
    SelectSeq(ord, LAMBDA i : i <= Len(node.fields) /\ node.fields[i].key \in DOMAIN src)

\* first loop of to_raw, over the sequence todo of field indexes
RawDerive(node, todo, ord, st) ==
    IF todo = <<>> THEN st
    ELSE LET fieldname == node.fields[Head(todo)].key
             field == node.fields[Head(todo)].node
             name == get_attr(field, "name", fieldname)
         IN  IF get_attr(field, "hidden", FALSE)
             THEN LET value2 == Pop(st.value, fieldname)
                  IN  RawDerive(node, Tail(todo), ord,
                          [st EXCEPT !.value = value2,
                                     !.orig = IF st.alias THEN value2 ELSE @,
                                     !.log = Append(@, Ev("skip", fieldname))])
             ELSE LET r == to_raw(field, st.value[fieldname], ord)
                      value2 == Pop(st.value, fieldname)
                      orig2 == IF st.alias THEN value2
                               ELSE [st.orig EXCEPT ![fieldname] = r.arg]
                  IN  IF r.ok
                      THEN RawDerive(node, Tail(todo), ord,
                               [st EXCEPT !.value = value2, !.orig = orig2,
                                          !.res = Put(st.res, name, r.val),
                                          !.log = Append(@, Ev("derive", fieldname))])
                      ELSE RawDerive(node, Tail(todo), ord,
                               [st EXCEPT !.value = value2, !.orig = orig2,
                                          !.errors = _update_errors_by_exception(@, r.errors, name),
                                          !.log = Append(@, Ev("error", fieldname))])

\* second loop of to_raw: fallback, the getvalue hook, then the exclusion
RawFill(node, i, st) ==
    IF i > Len(node.fields) THEN st
    ELSE LET fieldname == node.fields[i].key
             field == node.fields[i].node
             name == get_attr(field, "name", fieldname)
             st1 == IF NeedsFallback(st.res, name, field)
                    THEN [st EXCEPT !.res = Put(@, name, get_attr(field, "fallback", None)),
                                    !.log = Append(@, Ev("fallback", fieldname))]
                    ELSE st
             st2 == IF has_attr(field, "getvalue")
                    THEN [st1 EXCEPT !.res = ApplyHook(@, name, fieldname, st1.orig),
                                     !.log = Append(@, Ev("hook", fieldname))]
                    ELSE st1
             st3 == [st2 EXCEPT !.res = Exclude(@, name, is_excluded(node, fieldname, field))]
         IN  RawFill(node, i + 1, st3)

Object_to_raw(node, value, ord) ==
    IF value = None THEN [Ok(None) EXCEPT !.log = <<Ev("return", "")>>]
    ELSE LET c == copy(value.m)
             st0 == [value |-> c.m, orig |-> value.m, alias |-> c.alias,
                     res |-> EmptyMap, errors |-> <<>>, log |-> <<>>]
             st1 == RawDerive(node, SetOrder(node, c.m, ord), ord, st0)
             st2 == [st1 EXCEPT !.res = PassThrough(st1.res, st1.value),
                                !.log = Append(@, Ev("update", ""))]
         IN  Finish(RawFill(node, 1, st2))

to_raw(node, value, ord) ==
    CASE node.kind = "object" -> Object_to_raw(node, value, ord)
      [] node.kind = "date" -> Date_to_raw(value)
      [] OTHER -> Base_to_raw(value)

(***************************************************************************)
(* The composites the walk is checked on.  The root declares field "a"     *)
(* (every combination of kind, name, hidden, fallback and hook) and        *)
(* possibly a sibling "b"; wire keys are pairwise distinct.                *)
(***************************************************************************)
Leaf(kind, attrs) == [kind |-> kind, attrs |-> attrs, fields |-> <<>>]
Obj(attrs, fields) == [kind |-> "object", attrs |-> attrs, fields |-> fields]
F(key, node) == [key |-> key, node |-> node]

Fallback == Str("fb")

InnerOne == <<F("d", Leaf("date", <<>>))>>
InnerTwo == <<F("d", Leaf("date", [name |-> "D"])), F("e", Leaf("date", <<>>))>>

RECURSIVE InnerTables(_)
InnerTables(d) ==
    IF d <= 1 THEN {InnerOne, InnerTwo}
    ELSE InnerTables(d - 1)
         \cup {<<F("o", Obj([name |-> "O"], T))>> : T \in InnerTables(d - 1)}

FieldAttrs ==
    {n @@ h @@ f @@ k :
        n \in {<<>>, [name |-> "A"]},
        h \in {<<>>, [hidden |-> TRUE]},
        f \in {<<>>, [fallback |-> Fallback]},
        k \in {<<>>, [setvalue |-> TRUE], [getvalue |-> TRUE]}}

RichNodes ==
    {Leaf(kind, at) : kind \in {"string", "date"}, at \in FieldAttrs}
    \cup {Obj(at, T) : at \in FieldAttrs, T \in InnerTables(MaxDepth - 1)}

SiblingNodes ==
    {Leaf("date", <<>>), Leaf("string", [name |-> "a"]),
     Leaf("date", [name |-> "B", setvalue |-> TRUE, getvalue |-> TRUE])}

WireKey(f) == get_attr(f.node, "name", f.key)

WireKeysDistinct(fields) ==
    \A i, j \in 1..Len(fields) : i # j => WireKey(fields[i]) # WireKey(fields[j])

Schemas ==
    {Obj(x, T) :
        x \in {<<>>, [exclude |-> {"a"}]},
        T \in {T \in {<<F("a", a)>> : a \in RichNodes}
                     \cup {<<F("a", a), F("b", b)>> : a \in RichNodes, b \in SiblingNodes} :
               WireKeysDistinct(T)}}

(***************************************************************************)
(* Input maps.  The key a composite field is looked up under holds a map   *)
(* (or None for to_raw); every other key holds a scalar.                   *)
(***************************************************************************)
ScalarVals(dir) ==
    IF dir = "to_python" THEN {Str("d1"), Str("bad")} ELSE {DateV("d1"), Str("bad")}

LookupKey(dir, f) == IF dir = "to_python" THEN WireKey(f) ELSE f.key
TargetKey(dir, f) == IF dir = "to_python" THEN f.key ELSE WireKey(f)

\* every map with keys in ks, at most n of them, the value of k taken from vf[k]
RECURSIVE MapsOver(_, _, _)
MapsOver(ks, vf, n) ==
    IF ks = {} \/ n = 0 THEN {EmptyMap}
    ELSE LET k == CHOOSE x \in ks : TRUE
         IN  MapsOver(ks \ {k}, vf, n)
             \cup {Put(m, k, v) : m \in MapsOver(ks \ {k}, vf, n - 1), v \in vf[k]}

KeysOf(fields) ==
    {fields[i].key : i \in 1..Len(fields)} \cup {WireKey(fields[i]) : i \in 1..Len(fields)}

RECURSIVE InputsFor(_, _, _, _)
InputsFor(fields, dir, n, extra) ==
    LET ks == KeysOf(fields) \cup extra
        sub(k) == UNION {IF fields[i].node.kind = "object" /\ LookupKey(dir, fields[i]) = k
                         THEN {Map(m) : m \in InputsFor(fields[i].node.fields, dir, n - 1, {})}
                              \cup (IF dir = "to_raw" THEN {None} ELSE {})
                         ELSE {} : i \in 1..Len(fields)}
        vf == [k \in ks |-> IF sub(k) # {} THEN sub(k) ELSE ScalarVals(dir)]
    IN  MapsOver(ks, vf, n)

RootInputs(node, dir) ==
    {Map(m) : m \in InputsFor(node.fields, dir, MaxInputKeys, {"a", "A", "b", "z"})}

\* the iteration orders a set of field names can have
SetOrders == {<<1, 2>>, <<2, 1>>}

(***************************************************************************)
(* The parts of the program a specification does not exercise stay as they *)
(* are before anything is declared or called.                              *)
(***************************************************************************)
NoSchema == [t |-> "noschema"]
NoCall == [op |-> "none"]

SchemaIdle == schemas = <<>>
RenderIdle ==
    /\ _fields = <<>>
    /\ objs = <<>>
    /\ _schema = <<>>
    /\ _validator = <<>>
    /\ call = NoCall
AttrsIdle == acls = <<>> /\ got = NoCall
ValidIdle == vcall = NoCall
LateIdle ==
    /\ checked = NoCall
    /\ io = NoCall
    /\ threads = <<>>
    /\ scalar = NoCall

(***************************************************************************)
(* The calls                                                               *)
(***************************************************************************)
InitConv ==
    /\ SchemaIdle /\ RenderIdle /\ AttrsIdle /\ ValidIdle /\ LateIdle
    /\ schema \in Schemas
    /\ op = "none"
    /\ passed = None
    /\ caller = None
    /\ outcome = "none"
    /\ result = NoResult
    /\ errors = <<>>
    /\ log = <<>>
    /\ creation_index = 0
    /\ nodes = <<>>
    /\ classes = <<>>

Record(name, v, r) ==
    /\ op' = name
    /\ passed' = v
    /\ caller' = r.arg
    /\ outcome' = IF r.ok THEN "returned" ELSE "raised"
    /\ result' = r.val
    /\ errors' = r.errors
    /\ log' = r.log
    /\ UNCHANGED <<schema, declVars, schemas, renderVars, attrVars, vcall, lateVars>>

\* Object keeps nothing between two calls: each behaviour makes one call
CallToPython ==
    /\ op = "none"
    /\ \E v \in RootInputs(schema, "to_python") :
        Record("to_python", v, to_python(schema, v))

CallToRaw ==
    /\ op = "none"
    /\ \E v \in RootInputs(schema, "to_raw") \cup {None}, ord \in SetOrders :
        Record("to_raw", v, to_raw(schema, v, ord))

NextConv == CallToPython \/ CallToRaw

SpecConv == InitConv /\ [][NextConv]_vars

(***************************************************************************)
(* Vocabulary of the properties of the conversion walk                     *)
(***************************************************************************)
MapCall == op # "none" /\ passed.t = "map"
ReturnedMap == MapCall /\ outcome = "returned"
TableFields == {schema.fields[i] : i \in 1..Len(schema.fields)}
HookAttr == IF op = "to_python" THEN "setvalue" ELSE "getvalue"
Hooked(f) == has_attr(f.node, HookAttr)
Unhooked(f) == ~has_attr(f.node, "setvalue") /\ ~has_attr(f.node, "getvalue")
Excluded(f) == is_excluded(schema, f.key, f.node)
Lookup(f) == LookupKey(op, f)
Target(f) == TargetKey(op, f)
Supplied(f) == Lookup(f) \in DOMAIN passed.m
\* an input key no field is looked up under
Unknown(k) == k \in DOMAIN passed.m /\ \A f \in TableFields : Lookup(f) # k
\* the field's own conversion of the value the input supplies for it
Conv(f) ==
    IF op = "to_python" THEN to_python(f.node, passed.m[Lookup(f)])
    ELSE to_raw(f.node, passed.m[Lookup(f)], <<1, 2>>)

\* C1 (as stated): whenever the input supplies a field without hook that is
\* neither hidden nor excluded, the output holds the field's converted value
\* under the target key, whatever other keys the input contains.
C1_RenamedWhateverOtherKeys ==
    ReturnedMap =>
        \A f \in TableFields :
            (Unhooked(f) /\ ~Excluded(f) /\ Supplied(f)) =>
                /\ Target(f) \in DOMAIN result.m
                /\ result.m[Target(f)] = Conv(f).val

\* C1 (amended): the same, provided the input does not also hold the target
\* key as a key no field is looked up under (that key passes through and
\* replaces the converted value).
C1_Renamed ==
    ReturnedMap =>
        \A f \in TableFields :
            (~Hooked(f) /\ (op = "to_raw" => ~Excluded(f)) /\ Supplied(f)
                /\ ~Unknown(Target(f))) =>
                /\ Target(f) \in DOMAIN result.m
                /\ result.m[Target(f)] = Conv(f).val

C1_Witness ==
    /\ ReturnedMap
    /\ \E f \in TableFields :
        /\ ~Hooked(f) /\ ~Excluded(f) /\ Supplied(f)
        /\ Target(f) # Lookup(f)
        /\ f.node.kind = "date"
        /\ result.m[Target(f)] # passed.m[Lookup(f)]
        /\ Unknown("z")

\* C2 (as stated): every input key that no field is looked up under is in
\* the output with the same value.
C2_UnknownKeysAlwaysKept ==
    ReturnedMap =>
        \A k \in DOMAIN passed.m :
            Unknown(k) => k \in DOMAIN result.m /\ result.m[k] = passed.m[k]

\* C2 (amended): every input key that no field is looked up under is in the
\* output with the same value, unless it is the target key of a field with
\* a hook or, for to_raw, of a hidden or excluded field.
C2_UnknownKeysKept ==
    ReturnedMap =>
        \A k \in DOMAIN passed.m :
            (/\ Unknown(k)
             /\ \A f \in TableFields :
                    Target(f) = k => ~Hooked(f) /\ (op = "to_raw" => ~Excluded(f)))
            => k \in DOMAIN result.m /\ result.m[k] = passed.m[k]

C2_Witness ==
    /\ ReturnedMap
    /\ Unknown("z") /\ result.m["z"] = passed.m["z"]
    /\ \E f \in TableFields :
        /\ Supplied(f) /\ Unknown(Target(f)) /\ Target(f) # Lookup(f)
        /\ result.m[Target(f)] = passed.m[Target(f)]
        /\ result.m[Target(f)] # Conv(f).val

\* C3: after to_python or to_raw, returned or raised, the caller's map has
\* the keys and values it had when it was passed.
C3_InputUntouched == MapCall => caller = passed

C3_Witness ==
    /\ MapCall /\ outcome = "raised" /\ caller = passed
    /\ \E f \in TableFields :
        Supplied(f) /\ f.node.kind = "object" /\ passed.m[Lookup(f)].t = "map"
    /\ \E f \in TableFields : f.node.kind # "object" /\ Supplied(f)

\* C4: the result of to_raw has no key equal to the wire key of a hidden
\* field, whatever the input supplies and whatever fallback or hook it has.
C4_HiddenNeverWritten ==
    (ReturnedMap /\ op = "to_raw") =>
        \A f \in TableFields :
            get_attr(f.node, "hidden", FALSE) => WireKey(f) \notin DOMAIN result.m

C4_Witness ==
    /\ ReturnedMap /\ op = "to_raw"
    /\ \E f \in TableFields :
        /\ get_attr(f.node, "hidden", FALSE)
        /\ has_attr(f.node, "fallback") /\ has_attr(f.node, "getvalue")
        /\ WireKey(f) # f.key
        /\ f.key \in DOMAIN passed.m /\ WireKey(f) \in DOMAIN passed.m

\* the target key is in res before the second loop reaches the field
Produced(f) == Supplied(f) \/ Unknown(Target(f))
FallbackField(f) == has_attr(f.node, "fallback")
HasKey(k) == k \in DOMAIN result.m

\* C5 (as stated): for a field with a fallback and no hook, the fallback is
\* in the output under the target key exactly when the key was not produced
\* from the input, and a supplied field shows its converted value.
C5_FallbackEveryField ==
    ReturnedMap =>
        \A f \in TableFields :
            (FallbackField(f) /\ Unhooked(f)) =>
                /\ ~Produced(f) => (HasKey(Target(f)) /\ result.m[Target(f)] = Fallback)
                /\ Produced(f) => (HasKey(Target(f)) /\ result.m[Target(f)] # Fallback)
                /\ Supplied(f) => result.m[Target(f)] = Conv(f).val

\* C5 (amended): the same for the fields to_raw does not exclude and for
\* inputs that do not hold the target key as an unrecognised key; such a
\* key is kept as it is, and an excluded field has no key in to_raw's output.
C5_Fallback ==
    ReturnedMap =>
        \A f \in TableFields :
            (FallbackField(f) /\ ~Hooked(f)) =>
                IF op = "to_raw" /\ Excluded(f)
                THEN ~HasKey(Target(f))
                ELSE /\ ~Produced(f) => (HasKey(Target(f)) /\ result.m[Target(f)] = Fallback)
                     /\ Produced(f) => (HasKey(Target(f)) /\ result.m[Target(f)] # Fallback)
                     /\ (Supplied(f) /\ ~Unknown(Target(f))) =>
                            result.m[Target(f)] = Conv(f).val
                     /\ Unknown(Target(f)) => result.m[Target(f)] = passed.m[Target(f)]

C5_Witness ==
    /\ ReturnedMap /\ op = "to_raw"
    /\ \E f \in TableFields :
        /\ FallbackField(f) /\ ~Hooked(f) /\ ~Excluded(f) /\ ~Produced(f)
        /\ Target(f) # f.key
        /\ result.m[Target(f)] = Fallback
    /\ DOMAIN passed.m # {}

\* what the hook of field f returns, given what the earlier steps produced
HookSaw(f) ==
    IF op = "to_raw"
    THEN (IF f.key \in DOMAIN passed.m THEN passed.m[f.key] ELSE None)
    ELSE IF Unknown(f.key) THEN passed.m[f.key]
         ELSE IF Supplied(f) THEN Conv(f).val
         ELSE IF FallbackField(f) THEN Fallback
         ELSE None
HookValue(f) == [t |-> "hook", s |-> f.key, saw |-> HookSaw(f)]

\* the hook of f ran, after the derivation and the fallback step of f
HookRanLast(f) ==
    /\ \E j \in DOMAIN log : log[j] = Ev("hook", f.key)
    /\ \A i, j \in DOMAIN log :
        (log[j] = Ev("hook", f.key) /\ log[i].key = f.key /\ log[i].ev # "hook") => i < j
    /\ (FallbackField(f) /\ ~Produced(f)) =>
            \E i \in DOMAIN log : log[i] = Ev("fallback", f.key)

\* C6 (as stated): the hook of a field runs after the derivation and the
\* fallback step, and the output under the target key is what it returned.
C6_HookAlwaysWins ==
    ReturnedMap =>
        \A f \in TableFields :
            Hooked(f) =>
                /\ HookRanLast(f)
                /\ HasKey(Target(f)) /\ result.m[Target(f)] = HookValue(f)

\* C6 (amended): the same, except that to_raw removes the key of a hidden or
\* excluded field after its hook ran.
C6_HookWins ==
    ReturnedMap =>
        \A f \in TableFields :
            Hooked(f) =>
                /\ HookRanLast(f)
                /\ IF op = "to_raw" /\ Excluded(f)
                   THEN ~HasKey(Target(f))
                   ELSE HasKey(Target(f)) /\ result.m[Target(f)] = HookValue(f)

C6_Witness ==
    /\ ReturnedMap /\ op = "to_python"
    /\ \E f \in TableFields :
        /\ Hooked(f) /\ FallbackField(f) /\ ~Produced(f)
        /\ result.m[Target(f)] = [t |-> "hook", s |-> f.key, saw |-> Fallback]
    /\ \E g \in TableFields :
        /\ Hooked(g) /\ Supplied(g) /\ g.node.kind = "date"
        /\ result.m[Target(g)].saw = Conv(g).val

\* the fields whose conversion is attempted and fails
Failing(f) ==
    /\ Supplied(f)
    /\ op = "to_raw" => ~get_attr(f.node, "hidden", FALSE)
    /\ ~Conv(f).ok
RECURSIVE ChildErrors(_)
ChildErrors(i) ==
    IF i > Len(schema.fields) THEN <<>>
    ELSE (IF Failing(schema.fields[i]) THEN Conv(schema.fields[i]).errors ELSE <<>>)
         \o ChildErrors(i + 1)
Strip(e) == [value |-> e.value, invalid |-> e.invalid, against |-> e.against]
Count(seq, e) == Cardinality({i \in DOMAIN seq : Strip(seq[i]) = e})
SameErrors(s1, s2) ==
    /\ Len(s1) = Len(s2)
    /\ \A i \in DOMAIN s1 : Count(s1, Strip(s1[i])) = Count(s2, Strip(s1[i]))
\* the second loop reached every field before the failure was raised
AllProcessedThenRaised ==
    /\ log # <<>> /\ log[Len(log)] = Ev("raise", "")
    /\ \A i \in 1..(Len(log) - 1) : log[i].ev # "raise"
    /\ \E u \in DOMAIN log :
        /\ log[u] = Ev("update", "")
        /\ \A f \in TableFields :
            Hooked(f) => \E j \in DOMAIN log : j > u /\ log[j] = Ev("hook", f.key)

\* C7: when at least one child conversion fails, every field is processed,
\* then one failure is raised that carries every error of every failing
\* child, and nothing is returned.
C7_ErrorsAggregated ==
    (MapCall /\ \E f \in TableFields : Failing(f)) =>
        /\ outcome = "raised"
        /\ result = NoResult
        /\ SameErrors(errors, ChildErrors(1))
        /\ AllProcessedThenRaised

C7_Witness ==
    /\ MapCall /\ outcome = "raised"
    /\ Cardinality({f \in TableFields : Failing(f)}) >= 2
    /\ Len(errors) >= 3
    /\ \E f \in TableFields : Hooked(f)

\* C8: every error collected from a failing child is in the aggregated list
\* with the child's wire key prefixed onto the path it had.
C8_PathsRebased ==
    (MapCall /\ outcome = "raised") =>
        \A f \in TableFields :
            Failing(f) =>
                \A i \in DOMAIN Conv(f).errors :
                    \E j \in DOMAIN errors :
                        errors[j] = [Conv(f).errors[i] EXCEPT !.path = <<WireKey(f)>> \o @]

(***************************************************************************)
(* Node construction and the declarative collector.  A class is            *)
(*   [parent, declared, nulled, fields]                                    *)
(* parent is the index of its base class (0: types.Object itself, which    *)
(* declares no field), declared maps the keys its body binds to a node,    *)
(* nulled are the keys its body binds to None, and fields is cls._fields,  *)
(* the ordered table <<[key, node], ...>>.  `OrderedDict(...) or None`     *)
(* never stores an empty table: <<>> stands for None.                      *)
(***************************************************************************)
FieldKeys == {"x", "y"}

\* a construction that draws an index without advancing the counter
Construct_same ==
    /\ Len(nodes) < MaxNodes
    /\ nodes' = Append(nodes, creation_index)
    /\ creation_index' = creation_index
    /\ UNCHANGED <<classes, convVars, schemas, renderVars, attrVars, vcall, lateVars>>

\* Schema.__init__: take the counter's value, then increment the counter
Construct ==
    /\ Len(nodes) < MaxNodes
    /\ nodes' = Append(nodes, creation_index)
    /\ creation_index' = creation_index + 1
    /\ UNCHANGED <<classes, convVars, schemas, renderVars, attrVars, vcall, lateVars>>

\* sorted(..., key=lambda x: x[1]._creation_index): a stable insertion sort
RECURSIVE InsertByIndex(_, _)
InsertByIndex(sorted, e) ==
    IF sorted = <<>> THEN <<e>>
    ELSE IF nodes[e.node] < nodes[Head(sorted).node]
         THEN <<e>> \o sorted
         ELSE <<Head(sorted)>> \o InsertByIndex(Tail(sorted), e)

RECURSIVE SortByIndex(_)
SortByIndex(seq) ==
    IF seq = <<>> THEN <<>>
    ELSE InsertByIndex(SortByIndex(SubSeq(seq, 1, Len(seq) - 1)), seq[Len(seq)])

\* DeclarativeMetaclass.update_fields: the body's nodes, in the order items
\* the class-body mapping iterates them, sorted by _creation_index
update_fields(items) == SortByIndex(items)

\* OrderedDict.update: a key already there keeps its place and takes the
\* new value, a new key is appended
RECURSIVE OrderedUpdate(_, _)
OrderedUpdate(table, other) ==
    IF other = <<>> THEN table
    ELSE LET e == Head(other)
             t2 == IF \E i \in DOMAIN table : table[i].key = e.key
                   THEN [i \in DOMAIN table |-> IF table[i].key = e.key THEN e ELSE table[i]]
                   ELSE Append(table, e)
         IN  OrderedUpdate(t2, Tail(other))

\* the classes of cls.__mro__ below types.Object, most-base first
RECURSIVE Chain(_)
Chain(c) == IF c = 0 THEN <<>> ELSE Append(Chain(classes[c].parent), c)

\* DeclarativeMetaclass.get_inherited(cls, "_fields", Schema): the _fields of
\* the bases, most-base first, then the class's own; remove_if_none is False
RECURSIVE MergeBases(_, _)
MergeBases(fields, chain) ==
    IF chain = <<>> THEN fields
    ELSE MergeBases(OrderedUpdate(fields, classes[Head(chain)].fields), Tail(chain))

get_inherited(parent, own) == OrderedUpdate(MergeBases(<<>>, Chain(parent)), own)

UsedNodes == UNION {{classes[c].declared[k] : k \in DOMAIN classes[c].declared} : c \in DOMAIN classes}

\* the orders in which a mapping with keys ks can iterate
Orders(ks) ==
    {o \in [1..Cardinality(ks) -> ks] : \A i, j \in DOMAIN o : i # j => o[i] # o[j]}

\* class <new>(<parent>): <key> = <node> ... <key> = None ...
\* DeclarativeMetaclass.__new__
DefineClass ==
    /\ Len(classes) < MaxClasses
    /\ \E parent \in 0..Len(classes), ks \in SUBSET FieldKeys, nulled \in SUBSET FieldKeys :
        /\ ks \cap nulled = {}
        /\ \E declared \in [ks -> (DOMAIN nodes) \ UsedNodes], order \in Orders(ks) :
            /\ \A k1, k2 \in ks : k1 # k2 => declared[k1] # declared[k2]
            /\ LET items == [i \in DOMAIN order |-> [key |-> order[i], node |-> declared[order[i]]]]
                   own == update_fields(items)
               IN  classes' = Append(classes,
                       [parent |-> parent, declared |-> declared, nulled |-> nulled,
                        fields |-> get_inherited(parent, own)])
    /\ UNCHANGED <<creation_index, nodes, convVars, schemas, renderVars, attrVars, vcall, lateVars>>

DeclIdle ==
    /\ creation_index = 0
    /\ nodes = <<>>
    /\ classes = <<>>

ConvIdle ==
    /\ schema = Obj(<<>>, <<>>)
    /\ op = "none"
    /\ passed = None
    /\ caller = None
    /\ outcome = "none"
    /\ result = NoResult
    /\ errors = <<>>
    /\ log = <<>>

InitDecl ==
    /\ DeclIdle /\ ConvIdle
    /\ SchemaIdle /\ RenderIdle /\ AttrsIdle /\ ValidIdle /\ LateIdle

NextDecl == Construct \/ DefineClass

SpecDecl == InitDecl /\ [][NextDecl]_vars

TableKeys(c) == {classes[c].fields[i].key : i \in DOMAIN classes[c].fields}
InheritedKeys(c) == IF classes[c].parent = 0 THEN {} ELSE TableKeys(classes[c].parent)

\* C9: the field table of every class iterates its nodes in ascending
\* _creation_index, whatever the hierarchy.
C9_TableAscending ==
    \A c \in DOMAIN classes :
        \A i, j \in DOMAIN classes[c].fields :
            i < j => nodes[classes[c].fields[i].node] < nodes[classes[c].fields[j].node]

\* C10: a field name a derived class redeclares with None is absent from the
\* derived class's field table, and still in the base class's table.
C10_NulledFieldRemoved ==
    \A c \in DOMAIN classes :
        \A k \in classes[c].nulled \cap InheritedKeys(c) :
            /\ k \notin TableKeys(c)
            /\ k \in TableKeys(classes[c].parent)

(***************************************************************************)
(* schema.DeclarativeSchemaMetaclass.  A class statement run under it is   *)
(*   [parent, declared, nulled, raised, properties]                        *)
(* parent is the index in schemas of its base class, 0 for base.Base;      *)
(* declared and nulled are the keys its body binds to a node and to None;  *)
(* raised tells that __new__ left with TypeError, so that no class exists; *)
(* properties is cls._properties of the class that was created.            *)
(***************************************************************************)
MaxSchemaClasses == 2

\* a class-level _properties: None, or an ordered table
NoneProperties == [isNone |-> TRUE, items |-> <<>>]
Properties(items) == [isNone |-> FALSE, items |-> items]

\* base.Base: _properties = None, and none of FieldKeys is bound in its body
Base_properties == NoneProperties
Base_nulled == {}

\* declared_properties.pop(attr) for every None-valued attr of basecls.__dict__
PopNulled(table, nulled) == SelectSeq(table, LAMBDA e : e.key \notin nulled)

\* for basecls in reversed(mro): update with basecls._properties (TypeError
\* when it is None), then drop the names basecls binds to None
RECURSIVE CollectProperties(_, _)
CollectProperties(acc, mro) ==
    IF mro = <<>> \/ acc.raised THEN acc
    ELSE LET b == Head(mro)
         IN  IF b.properties.isNone
             THEN [acc EXCEPT !.raised = TRUE]
             ELSE CollectProperties(
                      [acc EXCEPT !.table =
                          PopNulled(OrderedUpdate(@, b.properties.items), b.nulled)],
                      Tail(mro))

\* reversed([c for c in cls.__mro__ if issubclass(c, base.Base)]) without
\* the class being created: base.Base first, then the bases down to parent
RECURSIVE SchemaChain(_)
SchemaChain(c) ==
    IF c = 0 THEN <<[properties |-> Base_properties, nulled |-> Base_nulled]>>
    ELSE Append(SchemaChain(schemas[c].parent),
                [properties |-> Properties(schemas[c].properties),
                 nulled |-> schemas[c].nulled])

SchemaUsedNodes ==
    UNION {{schemas[c].declared[k] : k \in DOMAIN schemas[c].declared} : c \in DOMAIN schemas}

\* class <new>(<parent>): <key> = <node> ... <key> = None ...
\* DeclarativeSchemaMetaclass.__new__
DefineSchema ==
    /\ Len(schemas) < MaxSchemaClasses
    /\ \E parent \in {0} \cup {c \in DOMAIN schemas : ~schemas[c].raised},
          ks \in SUBSET FieldKeys, nulled \in SUBSET FieldKeys :
        /\ ks \cap nulled = {}
        /\ \E declared \in [ks -> (DOMAIN nodes) \ SchemaUsedNodes], order \in Orders(ks) :
            /\ \A k1, k2 \in ks : k1 # k2 => declared[k1] # declared[k2]
            /\ LET items == [i \in DOMAIN order |-> [key |-> order[i], node |-> declared[order[i]]]]
                   current_properties == SortByIndex(items)
                   mro == Append(SchemaChain(parent),
                                 [properties |-> Properties(current_properties),
                                  nulled |-> nulled])
                   r == CollectProperties([raised |-> FALSE, table |-> <<>>], mro)
               IN  schemas' = Append(schemas,
                       [parent |-> parent, declared |-> declared, nulled |-> nulled,
                        raised |-> r.raised,
                        properties |-> IF r.raised THEN <<>> ELSE r.table])
    /\ UNCHANGED <<declVars, convVars, renderVars, attrVars, vcall, lateVars>>

InitSchema ==
    /\ DeclIdle /\ ConvIdle
    /\ SchemaIdle /\ RenderIdle /\ AttrsIdle /\ ValidIdle /\ LateIdle

NextSchema == Construct \/ DefineSchema

SpecSchema == InitSchema /\ [][NextSchema]_vars

PropertyKeys(c) == {schemas[c].properties[i].key : i \in DOMAIN schemas[c].properties}
InheritedProperties(c) ==
    IF schemas[c].parent = 0 THEN {} ELSE PropertyKeys(schemas[c].parent)
NodeOf(c, k) ==
    LET i == CHOOSE i \in DOMAIN schemas[c].properties : schemas[c].properties[i].key = k
    IN  schemas[c].properties[i].node

\* C11: every class statement yields a class whose _properties holds each
\* name its body binds to a node, with that node; lacks each inherited name
\* its body binds to None; and holds an inherited name it does not rebind
\* exactly when its base class holds it (a removal propagates forward).
C11_RemovalPropagates ==
    \A c \in DOMAIN schemas :
        /\ ~schemas[c].raised
        /\ \A k \in DOMAIN schemas[c].declared :
            k \in PropertyKeys(c) /\ NodeOf(c, k) = schemas[c].declared[k]
        /\ \A k \in schemas[c].nulled : k \notin PropertyKeys(c)
        /\ \A k \in FieldKeys \ (DOMAIN schemas[c].declared \cup schemas[c].nulled) :
            k \in PropertyKeys(c) <=> k \in InheritedProperties(c)

(***************************************************************************)
(* Schema rendering: base.Base.get_schema / make_schema.                   *)
(*                                                                         *)
(* objs[i] is instance i: [cls, attrs, parent]; attrs is its _attrs and    *)
(* parent its _parent (0 when never set).  _fields[c] is the table of      *)
(* class c, <<[key, node], ...>> with node an index of objs; a class that  *)
(* is not in DOMAIN _fields has _fields = None.  Instances do not own a    *)
(* table: self._fields is the class attribute.                             *)
(*                                                                         *)
(* A rendered schema is                                                    *)
(*   [type, keys, hasProperties, properties, hasRequired, required]        *)
(* type is the value of "type" (<<"string">>, or <<"object", "null">>),    *)
(* keys maps the other structural keys present to their values,            *)
(* properties is the ordered mapping <<[key, schema], ...>>.               *)
(* A context is [none, exclude_tags]: none for context=None (or {}).       *)
(***************************************************************************)
MaxInstances == 2    \* instances of the root composite constructed
MaxExtends == 1      \* fields added by extend, as a call or as a parameter

SetV(e) == [t |-> "set", e |-> e]

\* lib.ensure_set
ensure_set(thing) ==
    CASE thing.t = "none" -> {}
      [] thing.t = "set" -> thing.e
      [] OTHER -> {thing.s}

\* Schema.get
get(node, name, default) == IF name \in DOMAIN node.attrs THEN node.attrs[name] ELSE default

\* Schema.has_tags: set(self.get_tags()) & set(tags)
has_tags(node, tags) == get(node, "tags", {}) \cap tags # {}

NoContext == [none |-> TRUE, exclude_tags |-> None]
Context(tags) == [none |-> FALSE, exclude_tags |-> tags]

\* the truth value Python gives a structural attribute
Truthy(v) == v # None /\ v # Str("")

StructuralKeys == {"enum", "format", "title", "description", "default"}

TypeOf(cls) ==
    CASE cls = "String" -> "string"
      [] cls = "Ref" -> "None"
      [] OTHER -> "object"

\* make_schema, down to schema["default"]: the keys every node renders
BaseSchema(node) ==
    [type |-> IF get(node, "null", FALSE) THEN <<TypeOf(node.cls), "null">>
              ELSE <<TypeOf(node.cls)>>,
     keys |-> [k \in {k \in StructuralKeys : Truthy(get(node, k, None))} |-> node.attrs[k]],
     hasProperties |-> FALSE, properties |-> <<>>,
     hasRequired |-> FALSE, required |-> <<>>]

\* the order Python gives the wire names
Names == <<"X", "in", "p", "q", "r", "sub", "t", "u", "x", "y">>
Rank(n) == CHOOSE i \in DOMAIN Names : Names[i] = n

RECURSIVE InsertByRank(_, _)
InsertByRank(seq, n) ==
    IF seq = <<>> THEN <<n>>
    ELSE IF Rank(n) < Rank(Head(seq)) THEN <<n>> \o seq
         ELSE <<Head(seq)>> \o InsertByRank(Tail(seq), n)

\* schema['required'] = sorted(required)
sorted_asis(seq) == seq
RECURSIVE sorted(_)
sorted(seq) ==
    IF seq = <<>> THEN <<>>
    ELSE InsertByRank(sorted(SubSeq(seq, 1, Len(seq) - 1)), seq[Len(seq)])

\* properties[name] = ...: an OrderedDict item assignment
SetItem(props, name, val) == OrderedUpdate(props, <<[key |-> name, node |-> val]>>)

\* the three `continue` of the loop over self._fields.items()
Skipped(self, key, prop, exclude_tags) ==
    \/ key \in get(self, "exclude", {})
    \/ /\ get(self, "include", {}) # {}
       /\ key \notin get(self, "include", {})
    \/ exclude_tags # {} /\ has_tags(prop, exclude_tags)

RECURSIVE get_schema(_, _, _), make_schema(_, _, _), RenderFields(_, _, _, _, _)

\* for key, prop in self._fields.items(): ...; acc is [properties, required, cache]
RenderFields(id, i, context, exclude_tags, acc) ==
    LET table == _fields[objs[id].cls]
    IN  IF i > Len(table) THEN acc
        ELSE LET key == table[i].key
                 prop == table[i].node
             IN  IF Skipped(objs[id], key, objs[prop], exclude_tags)
                 THEN RenderFields(id, i + 1, context, exclude_tags, acc)
                 ELSE LET name == get(objs[prop], "name", key)
                          r == get_schema(prop, context, acc.cache)
                      IN  RenderFields(id, i + 1, context, exclude_tags,
                              [properties |-> SetItem(acc.properties, name, r.val),
                               required |-> IF get(objs[prop], "required", FALSE)
                                            THEN Append(acc.required, name)
                                            ELSE acc.required,
                               cache |-> r.cache])

\* Base.make_schema; cache is the _schema of every instance, which the
\* get_schema calls on the children read and write
make_schema(id, context, cache) ==
    LET self == objs[id]
        attr_exclude_tags == ensure_set(get(self, "exclude_tags", None))
        ctx_exclude_tags == ensure_set(context.exclude_tags)
        exclude_tags == attr_exclude_tags \cup ctx_exclude_tags
        context2 == IF attr_exclude_tags # {} THEN Context(SetV(exclude_tags)) ELSE context
        schema0 == BaseSchema(self)
    IN  IF self.cls \in DOMAIN _fields
        THEN LET r == RenderFields(id, 1, context2, exclude_tags,
                          [properties |-> <<>>, required |-> <<>>, cache |-> cache])
             IN  [val |-> [schema0 EXCEPT !.hasProperties = TRUE,
                                          !.properties = r.properties,
                                          !.hasRequired = (r.required # <<>>),
                                          !.required = sorted(r.required)],
                  cache |-> r.cache]
        ELSE [val |-> schema0, cache |-> cache]

\* Base.get_schema
get_schema(id, context, cache) ==
    LET c1 == IF ~context.none THEN make_schema(id, context, cache).cache ELSE cache
    IN  IF c1[id] # NoSchema
        THEN [val |-> c1[id], cache |-> c1]
        ELSE LET r == make_schema(id, context, c1)
             IN  [val |-> r.val, cache |-> [r.cache EXCEPT ![id] = r.val]]

(***************************************************************************)
(* The declarations rendering is checked on:                               *)
(*   class Inner(types.Object): q = String(tags=['s'])                     *)
(*                              r = String(tags=['r'], required=True)      *)
(*   class Sub(types.Object):   p = String(tags=['s'], required=True)      *)
(*                              in_ = Inner(...)                           *)
(*   class Root(types.Object):  y = String(...); x = String(...)           *)
(*                              sub = Sub(...)                             *)
(* Instances 1..7 are the field nodes; instances of Root and the nodes     *)
(* passed to extend come after them.                                       *)
(***************************************************************************)
Node(cls, attrs) == [cls |-> cls, attrs |-> attrs, parent |-> 0]

ClassTables ==
    [Root |-> <<F("y", 1), F("x", 2), F("sub", 3)>>,
     Sub |-> <<F("p", 4), F("in", 5)>>,
     Inner |-> <<F("q", 6), F("r", 7)>>]

Declared(y, x, sub, inner) ==
    <<Node("String", y), Node("String", x), Node("Sub", sub),
      Node("String", [tags |-> {"s"}, required |-> TRUE]),
      Node("Inner", inner),
      Node("String", [tags |-> {"s"}]),
      Node("String", [tags |-> {"r"}, required |-> TRUE])>>

Declarations ==
    {Declared([required |-> TRUE], [required |-> TRUE], <<>>, <<>>),
     Declared([required |-> TRUE, tags |-> {"s"}], [required |-> TRUE, hidden |-> TRUE],
              [exclude_tags |-> SetV({"r"})], <<>>),
     Declared([required |-> TRUE, tags |-> {"s"}], [name |-> "X"],
              <<>>, [exclude_tags |-> Str("s")]),
     Declared([required |-> TRUE], [required |-> TRUE, hidden |-> TRUE],
              [exclude_tags |-> SetV({"r"})], [exclude_tags |-> Str("s")])}

RootAttrs ==
    {<<>>, [exclude_tags |-> SetV({"r"}), exclude |-> {"y"}], [include |-> {"y", "sub"}]}

Contexts == {NoContext, Context(Str("s"))}

ExtendKeys == {"t", "u"}

Instances(cls) == {i \in DOMAIN objs : objs[i].cls = cls}
Composites == {i \in DOMAIN objs : objs[i].cls \in DOMAIN _fields}
Extensions == {i \in DOMAIN objs : objs[i].parent # 0}

\* the class statements have run and no instance of Root exists yet
InitInstances ==
    /\ objs \in Declarations
    /\ _fields = ClassTables
    /\ _schema = [i \in 1..7 |-> NoSchema]
    /\ _validator = [i \in 1..7 |-> NoSchema]
    /\ call = NoCall
    /\ creation_index = 7
    /\ nodes = <<>>
    /\ classes = <<>>
    /\ ConvIdle /\ SchemaIdle /\ AttrsIdle /\ ValidIdle /\ LateIdle

\* the class statements have run and root = Root(**attrs) is constructed
InitRender ==
    /\ \E d \in Declarations, attrs \in RootAttrs : objs = Append(d, Node("Root", attrs))
    /\ _fields = ClassTables
    /\ _schema = [i \in 1..8 |-> NoSchema]
    /\ _validator = [i \in 1..8 |-> NoSchema]
    /\ call = NoCall
    /\ creation_index = 8
    /\ nodes = <<>>
    /\ classes = <<>>
    /\ ConvIdle /\ SchemaIdle /\ AttrsIdle /\ ValidIdle /\ LateIdle

\* Object.extend({fieldname: prop}), prop being instance p of the instances
\* os: prop._parent and prop._attrs['fieldname'] are set, then
\* self._fields.update(properties) changes the table self._fields names,
\* which is the table of the class
extend(os, tables, self, fieldname, p) ==
    [objs |-> [os EXCEPT ![p].parent = self,
                         ![p].attrs = Put(@, "fieldname", Str(fieldname))],
     _fields |-> [tables EXCEPT ![os[self].cls] = OrderedUpdate(@, <<F(fieldname, p)>>)]]

\* node.get_schema(context=...)
GetSchema ==
    \E id \in Composites, context \in Contexts :
        LET r == get_schema(id, context, _schema)
        IN  /\ _schema' = r.cache
            /\ call' = [op |-> "get_schema", id |-> id, context |-> context, val |-> r.val]
            /\ UNCHANGED <<objs, _fields, _validator, declVars, convVars, schemas, attrVars, vcall, lateVars>>

\* root.validate(obj): validate_json(to_json(obj)) -> get_validator(None)
Validate ==
    \E id \in Instances("Root") :
        LET r == IF _validator[id] # NoSchema
                 THEN [val |-> _validator[id], cache |-> _schema]
                 ELSE get_schema(id, NoContext, _schema)
        IN  /\ _validator' = [_validator EXCEPT ![id] = r.val]
            /\ _schema' = r.cache
            /\ call' = [op |-> "validate", id |-> id, context |-> NoContext, val |-> r.val]
            /\ UNCHANGED <<objs, _fields, declVars, convVars, schemas, attrVars, vcall, lateVars>>

\* root.extend({fieldname: types.String()})
Extend ==
    /\ Cardinality(Extensions) < MaxExtends
    /\ \E id \in Instances("Root"), fieldname \in ExtendKeys :
        LET p == Len(objs) + 1
            e == extend(Append(objs, Node("String", <<>>)), _fields, id, fieldname, p)
        IN  /\ objs' = e.objs
            /\ _fields' = e._fields
            /\ _schema' = Append(_schema, NoSchema)
            /\ _validator' = Append(_validator, NoSchema)
            /\ creation_index' = creation_index + 1
            /\ call' = NoCall
            /\ UNCHANGED <<nodes, classes, convVars, schemas, attrVars, vcall, lateVars>>

\* Root(**attrs) and Root(extend={fieldname: types.String()}, **attrs)
NewInstance ==
    /\ Cardinality(Instances("Root")) < MaxInstances
    /\ \E attrs \in RootAttrs :
        \/ /\ objs' = Append(objs, Node("Root", attrs))
           /\ _schema' = Append(_schema, NoSchema)
           /\ _validator' = Append(_validator, NoSchema)
           /\ creation_index' = creation_index + 1
           /\ call' = NoCall
           /\ UNCHANGED <<_fields, nodes, classes, convVars, schemas, attrVars, vcall, lateVars>>
        \/ /\ Cardinality(Extensions) < MaxExtends
           /\ \E fieldname \in ExtendKeys :
               LET p == Len(objs) + 1
                   id == Len(objs) + 2
                   e == extend(objs \o <<Node("String", <<>>), Node("Root", attrs)>>,
                               _fields, id, fieldname, p)
               IN  /\ objs' = e.objs
                   /\ _fields' = e._fields
                   /\ _schema' = _schema \o <<NoSchema, NoSchema>>
                   /\ _validator' = _validator \o <<NoSchema, NoSchema>>
                   /\ creation_index' = creation_index + 2
                   /\ call' = NoCall
                   /\ UNCHANGED <<nodes, classes, convVars, schemas, attrVars, vcall, lateVars>>

\* the rendering every node starts from under its newer name get_jsonschema:
\* the keys make_schema renders before the definitions and the properties
Base_get_jsonschema(node) == BaseSchema(node)

\* Ref.get_jsonschema: schema.pop('type'); assert not schema; {'$ref': ...}
Ref_get_jsonschema(node) ==
    LET schema0 == Base_get_jsonschema(node)
    IN  IF DOMAIN schema0.keys # {}
        THEN [raised |-> TRUE, val |-> NoSchema]
        ELSE [raised |-> FALSE,
              val |-> [t |-> "$ref", s |-> <<"#/definitions/", node.attrs["ref"].s>>]]

RefAttrs ==
    {[ref |-> Str("sub")] @@ a :
        a \in {<<>>, [null |-> TRUE], [enum |-> Str("e")], [format |-> Str("date")],
               [title |-> Str("T")], [title |-> Str("")], [description |-> Str("D")],
               [default |-> Str("v")]}}

\* types.Ref(**attrs).get_jsonschema()
RenderRef ==
    \E attrs \in RefAttrs :
        LET r == Ref_get_jsonschema(Node("Ref", attrs))
        IN  /\ call' = [op |-> "ref", attrs |-> attrs, raised |-> r.raised, val |-> r.val]
            /\ UNCHANGED <<objs, _fields, _schema, _validator,
                           declVars, convVars, schemas, attrVars, vcall, lateVars>>

NextRender == Extend \/ GetSchema \/ Validate \/ RenderRef

SpecRender == InitRender /\ [][NextRender]_vars

NextInstances == NewInstance \/ Extend

SpecInstances == InitInstances /\ [][NextInstances]_vars

(***************************************************************************)
(* Vocabulary of the properties of rendering                               *)
(***************************************************************************)
Rendered == call.op = "get_schema"
PropKeys(S) == {S.properties[i].key : i \in DOMAIN S.properties}
PropOf(S, k) == S.properties[CHOOSE i \in DOMAIN S.properties : S.properties[i].key = k].node
PropIndex(S, k) == CHOOSE i \in DOMAIN S.properties : S.properties[i].key = k
Table(id) == _fields[objs[id].cls]
Wire(f) == get(objs[f.node], "name", f.key)
IsComposite(id) == objs[id].cls \in DOMAIN _fields
OwnTags(id) == ensure_set(get(objs[id], "exclude_tags", None))
PassesLists(id, f) ==
    /\ f.key \notin get(objs[id], "exclude", {})
    /\ ("include" \in DOMAIN objs[id].attrs => f.key \in objs[id].attrs["include"])
Entries(id) == {Table(id)[i] : i \in DOMAIN Table(id)}

\* S, rendered for instance id, filters by tags at every depth: inherited is
\* the effective exclude-tag set above id
RECURSIVE TagsFiltered(_, _, _)
TagsFiltered(id, S, inherited) ==
    LET eff == inherited \cup OwnTags(id)
    IN  \A f \in Entries(id) :
            PassesLists(id, f) =>
                /\ Wire(f) \notin PropKeys(S) <=> has_tags(objs[f.node], eff)
                /\ (Wire(f) \in PropKeys(S) /\ IsComposite(f.node)) =>
                       TagsFiltered(f.node, PropOf(S, Wire(f)), eff)

\* C12: in every rendered schema the fields left out for their tags are, at
\* every depth, those carrying a tag of the union of the context's
\* exclude_tags and the exclude_tags of the composites from the rendered
\* root down to the field's owner.
C12_TagsUnionPropagates ==
    Rendered => TagsFiltered(call.id, call.val, ensure_set(call.context.exclude_tags))

\* C13: a field of the table is in the rendered properties, under its wire
\* name, exactly when its key is not in exclude, include is unset or holds
\* its key, it carries no tag of the effective exclude-tag set, and it is
\* not hidden.
C13_FieldFilter ==
    Rendered =>
        \A f \in Entries(call.id) :
            Wire(f) \in PropKeys(call.val) <=>
                /\ PassesLists(call.id, f)
                /\ ~has_tags(objs[f.node],
                             ensure_set(call.context.exclude_tags) \cup OwnTags(call.id))
                /\ ~get(objs[f.node], "hidden", FALSE)

IsAscending(seq) == \A i, j \in DOMAIN seq : i < j => Rank(seq[i]) < Rank(seq[j])
Elements(seq) == {seq[i] : i \in DOMAIN seq}

\* S, rendered for instance id: at every depth required lists, ascending,
\* the rendered keys of the required fields, and is absent when there is none
RECURSIVE RequiredListed(_, _)
RequiredListed(id, S) ==
    LET survivors == {f \in Entries(id) : Wire(f) \in PropKeys(S)}
        expected == {Wire(f) : f \in {g \in survivors : get(objs[g.node], "required", FALSE)}}
    IN  /\ S.hasProperties
        /\ Elements(S.required) = expected
        /\ Len(S.required) = Cardinality(expected)
        /\ IsAscending(S.required)
        /\ S.hasRequired <=> expected # {}
        /\ \A f \in survivors :
               IsComposite(f.node) => RequiredListed(f.node, PropOf(S, Wire(f)))

C15_RefOnly ==
    call.op = "ref" =>
        IF DOMAIN call.attrs = {"ref"}
        THEN ~call.raised /\ call.val = [t |-> "$ref", s |-> <<"#/definitions/", call.attrs["ref"].s>>]
        ELSE call.raised

\* C16: what get_schema(context=c) returns is what make_schema(context=c)
\* computes from the attributes and field tables as they are, whatever was
\* rendered before.
C16_RenderingPure ==
    Rendered =>
        call.val = make_schema(call.id, call.context, [i \in DOMAIN objs |-> NoSchema]).val

\* C17: the schema an instance renders, and the schema its validator is
\* compiled from, hold every field added to the instance by extend (unless
\* the instance's exclude / include filters it), after the fields of the
\* class.
C17_ExtendInvalidates ==
    (call.op \in {"get_schema", "validate"} /\ call.context.none /\ objs[call.id].cls = "Root") =>
        \A f \in Entries(call.id) :
            (objs[f.node].parent = call.id /\ PassesLists(call.id, f)) =>
                /\ Wire(f) \in PropKeys(call.val)
                /\ \A g \in Entries(call.id) :
                       (objs[g.node].parent = 0 /\ Wire(g) \in PropKeys(call.val)) =>
                           PropIndex(call.val, Wire(g)) < PropIndex(call.val, Wire(f))

\* C18: the table of a class stays the table computed at class creation, and
\* the table an instance sees holds no field added by extending another
\* instance.
C18_ClassTableImmutable ==
    /\ _fields = ClassTables
    /\ \A i \in Instances("Root") :
           \A f \in Entries(i) : objs[f.node].parent \in {0, i}

(***************************************************************************)
(* Attributes of a node: the class-level defaults DeclarativeMetaclass     *)
(* merges into cls._attrs, the copy Schema.__init__ makes of them, and     *)
(* Schema.get.                                                             *)
(*                                                                         *)
(* A class is [bases, own, mro, _attrs]: its bases and its __mro__ as      *)
(* indexes into acls (most derived first, `object` left out), own the      *)
(* `_attrs` its body holds after update_attrs, _attrs the merged mapping   *)
(* cls._attrs.  A mapping that may be None is [isNone, m].                 *)
(***************************************************************************)
MaxAttrClasses == 3
MaxAttrNodes == 2

Bool(b) == [t |-> "bool", s |-> b]

NoneAttrs == [isNone |-> TRUE, m |-> <<>>]
Attrs(m) == [isNone |-> FALSE, m |-> m]

\* lib.get_public_attributes(Cls): {} when the body has no Attrs block
get_public_attributes(Cls) == IF Cls.isNone THEN <<>> ELSE Cls.m

\* DeclarativeMetaclass.update_attrs(attrs, "_attrs", "Attrs"): the Attrs
\* block is merged over the body's _attrs mapping, or stands alone
update_attrs(body_attrs, Cls) ==
    LET fields == get_public_attributes(Cls)
    IN  IF ~body_attrs.isNone THEN Attrs(Update(body_attrs.m, fields)) ELSE Attrs(fields)

\* cls.__mro__: the C3 merge of the bases' __mro__ and the list of bases
RECURSIVE C3Merge(_, _)
C3Merge(seqs, acc) ==
    LET live == SelectSeq(seqs, LAMBDA q : q # <<>>)
        InTail(c) == \E j \in DOMAIN live :
                         \E k \in 2..Len(live[j]) : live[j][k] = c
        good == {i \in DOMAIN live : ~InTail(Head(live[i]))}
    IN  IF live = <<>> THEN [ok |-> TRUE, mro |-> acc]
        ELSE IF good = {} THEN [ok |-> FALSE, mro |-> acc]
        ELSE LET i == CHOOSE x \in good : \A y \in good : x <= y
                 c == Head(live[i])
                 Drop(q) == IF Head(q) = c THEN Tail(q) ELSE q
             IN  C3Merge([j \in DOMAIN live |-> Drop(live[j])], Append(acc, c))

Mro(cs, self, bases) ==
    C3Merge([i \in 1..Len(bases) |-> cs[bases[i]].mro] \o <<bases>>, <<self>>)

\* DeclarativeMetaclass.get_inherited(cls, "_attrs", Schema): over
\* reversed(mro), every _attrs that is not None is merged in; getattr gives
\* for a base its merged cls._attrs and for the new class the mapping of its
\* body; `fields or None`
RECURSIVE MergeAttrs(_, _, _, _, _)
MergeAttrs(cs, self, own, mro, i) ==
    IF i > Len(mro) THEN <<>>
    ELSE LET below == MergeAttrs(cs, self, own, mro, i + 1)
             mine == IF mro[i] = self THEN own ELSE cs[mro[i]]._attrs
         IN  IF mine.isNone THEN below ELSE Update(below, mine.m)

get_inherited_attrs(cs, self, own, mro) ==
    LET fields == MergeAttrs(cs, self, own, mro, 1)
    IN  IF fields = <<>> THEN NoneAttrs ELSE Attrs(fields)

\* DeclarativeMetaclass.__new__, for _attrs: the class statement
\* class <self>(*bases): _attrs = body_attrs; class Attrs: Cls
NewClass(cs, bases, body_attrs, Cls) ==
    LET self == Len(cs) + 1
        own == update_attrs(body_attrs, Cls)
        mro == Mro(cs, self, bases).mro
    IN  [bases |-> bases, own |-> own, mro |-> mro,
         _attrs |-> get_inherited_attrs(cs, self, own, mro)]

\* base.Schema is a plain class with _attrs = None
SchemaClass == [bases |-> <<>>, own |-> NoneAttrs, mro |-> <<1>>, _attrs |-> NoneAttrs]
\* class Base(Schema): _attrs = None
BaseClass == NewClass(<<SchemaClass>>, <<1>>, NoneAttrs, NoneAttrs)
\* class Object(Base): _attrs = {'additional': False}
ObjectClass ==
    NewClass(<<SchemaClass, BaseClass>>, <<2>>, Attrs([additional |-> Bool("False")]), NoneAttrs)

LibraryClasses == <<SchemaClass, BaseClass, ObjectClass>>

BodyAttrs == {NoneAttrs, Attrs([additional |-> Bool("False")])}
AttrsBlocks == {NoneAttrs, Attrs([additional |-> Bool("True")])}
PassedAttrs == {<<>>, [additional |-> Bool("True")], [title |-> None]}
AttrNames == {"additional", "title"}
Defaults == {None, Str("dflt")}

BaseLists(cs) ==
    {<<b>> : b \in 2..Len(cs)}
        \cup {<<a, b>> : a \in 3..Len(cs), b \in 3..Len(cs)} 

\* the module is imported: Schema, Base and types.Object exist
InitAttrs ==
    /\ acls = LibraryClasses
    /\ got = NoCall
    /\ DeclIdle /\ ConvIdle /\ SchemaIdle /\ RenderIdle /\ ValidIdle /\ LateIdle

\* a class statement for a node class; a list of bases without a consistent
\* method resolution order creates no class
DefineAttrsClass ==
    /\ Len(acls) < Len(LibraryClasses) + MaxAttrClasses
    /\ \E bases \in BaseLists(acls), body_attrs \in BodyAttrs, Cls \in AttrsBlocks :
           /\ Len(bases) = 2 => bases[1] # bases[2]
           /\ Mro(acls, Len(acls) + 1, bases).ok
           /\ acls' = Append(acls, NewClass(acls, bases, body_attrs, Cls))
    /\ UNCHANGED <<got, declVars, convVars, schemas, renderVars, vcall, lateVars>>

\* Schema.__init__: node = cls(**attrs)
NewAttrsNode ==
    /\ creation_index < MaxAttrNodes
    /\ \E cls \in 3..Len(acls), attrs \in PassedAttrs :
           got' = [op |-> "init", cls |-> cls, passed |-> attrs,
                   _attrs |-> Update(IF acls[cls]._attrs.isNone THEN <<>>
                                     ELSE acls[cls]._attrs.m, attrs)]
    /\ creation_index' = creation_index + 1
    /\ UNCHANGED <<acls, nodes, classes, convVars, schemas, renderVars, vcall, lateVars>>

\* Schema.get: node.get(name, default) on the node constructed last
Get ==
    /\ got.op \in {"init", "get"}
    /\ \E name \in AttrNames, default \in Defaults :
           got' = [op |-> "get", cls |-> got.cls, passed |-> got.passed,
                   _attrs |-> got._attrs, name |-> name, default |-> default,
                   val |-> IF name \in DOMAIN got._attrs THEN got._attrs[name] ELSE default]
    /\ UNCHANGED <<acls, declVars, convVars, schemas, renderVars, vcall, lateVars>>

NextAttrs == DefineAttrsClass \/ NewAttrsNode \/ Get

SpecAttrs == InitAttrs /\ [][NextAttrs]_vars

\* what the body of class c declares, and the classes of the hierarchy of c
\* that declare the attribute, most derived first
Declares(c, name) == ~acls[c].own.isNone /\ name \in DOMAIN acls[c].own.m
Declaring(c, name) == SelectSeq(acls[c].mro, LAMBDA b : Declares(b, name))

\* C19: node.get(name, default) is the value passed at construction if one
\* was passed, else the declaration of the most derived class of the node's
\* hierarchy that declares the attribute, else the caller's default (None
\* when the caller gives none).
C19_AttributeResolution ==
    got.op = "get" =>
        got.val = IF got.name \in DOMAIN got.passed THEN got.passed[got.name]
                  ELSE IF Declaring(got.cls, got.name) # <<>>
                  THEN acls[Head(Declaring(got.cls, got.name))].own.m[got.name]
                  ELSE got.default

(***************************************************************************)
(* The validator adapters of schemaio: JSONSchemaValidator and             *)
(* JSONSchemaDictValidator.                                                *)
(*                                                                         *)
(* The compiled jsonschema validator is the environment: iter_errors(data) *)
(* yields a sequence of violations, each located at a node of data.  A     *)
(* violation ex is [message, instance, schema_path, validator_value, path],*)
(* ex.path being the steps from the root of the validated instance to the  *)
(* offending node: a text for a property, an integer for an array element. *)
(***************************************************************************)
MaxViolations == 2

IntV(n) == [t |-> "int", n |-> n]
List(e) == [t |-> "list", e |-> e]

\* the node of value v the steps of path lead to
RECURSIVE At(_, _)
At(v, path) ==
    IF path = <<>> THEN v
    ELSE IF v.t = "map" THEN At(v.m[Head(path).s], Tail(path))
    ELSE At(v.e[Head(path).n + 1], Tail(path))

\* the paths of the nodes of value v
RECURSIVE PathsOf(_)
PathsOf(v) ==
    {<<>>} \cup
    (IF v.t = "map"
     THEN UNION {{<<Str(k)>> \o p : p \in PathsOf(v.m[k])} : k \in DOMAIN v.m}
     ELSE IF v.t = "list"
     THEN UNION {{<<IntV(i - 1)>> \o p : p \in PathsOf(v.e[i])} : i \in DOMAIN v.e}
     ELSE {})

Rules == {"type", "minLength"}

\* the relative path of the violated keyword within the schema
RECURSIVE SchemaPath(_, _)
SchemaPath(path, rule) ==
    IF path = <<>> THEN <<rule>>
    ELSE (IF Head(path).t = "str" THEN <<"properties", Head(path).s>> ELSE <<"items">>)
             \o SchemaPath(Tail(path), rule)

\* a jsonschema.ValidationError for the node of data at path
Violation(data, path, rule) ==
    [message |-> <<At(data, path), "violates", rule>>,
     instance |-> At(data, path),
     schema_path |-> SchemaPath(path, rule),
     validator_value |-> IF rule = "type" THEN Str("string") ELSE IntV(2),
     path |-> path]

Violations(data) == {Violation(data, p, r) : p \in PathsOf(data), r \in Rules}

\* what validator.iter_errors(data) can yield
Reports(data) ==
    UNION {[1..n -> Violations(data)] : n \in 0..MaxViolations}

NoPrefix == ""

\* ".".join(path): a TypeError when an item of path is not a text
CanJoin(path) == \A i \in DOMAIN path : path[i].t = "str"
Join(path) == [i \in DOMAIN path |-> path[i].s]

\* JSONSchemaValidator._update_errors_with_exception on the collection st
\* ([raised, errors]: raised when the TypeError of join got out)
_update_errors_with_exception(st, ex, path_prefix) ==
    LET path == IF path_prefix # "" THEN <<Str(path_prefix)>> \o ex.path ELSE ex.path
    IN  IF ~CanJoin(path) THEN [raised |-> TRUE, errors |-> st.errors]
        ELSE [raised |-> FALSE,
              errors |-> Append(st.errors,
                  [error |-> "ValidationError",
                   message |-> ex.message,
                   value |-> ex.instance,
                   invalid |-> ex.schema_path[Len(ex.schema_path)],
                   against |-> ex.validator_value,
                   path |-> Join(path)])]

\* for ex in validator.iter_errors(...): self._update_errors_with_exception
RECURSIVE Collect(_, _, _, _)
Collect(st, exs, path_prefix, i) ==
    IF st.raised \/ i > Len(exs) THEN st
    ELSE Collect(_update_errors_with_exception(st, exs[i], path_prefix), exs, path_prefix, i + 1)

\* JSONSchemaValidator._raise_exception_when_errors, and the TypeError that
\* left the loop before it
Outcome(st, data) ==
    IF st.raised THEN [outcome |-> "TypeError", errors |-> <<>>, value |-> None]
    ELSE IF st.errors # <<>>
    THEN [outcome |-> "ValidationErrors", errors |-> st.errors, value |-> data]
    ELSE [outcome |-> "returned", errors |-> <<>>, value |-> None]

\* JSONSchemaValidator.validate(data), the validator yielding exs
JSONSchemaValidator_validate(data, exs) ==
    Outcome(Collect([raised |-> FALSE, errors |-> <<>>], exs, NoPrefix, 1), data)

\* the loop of JSONSchemaDictValidator.validate over data.items() in the
\* order the dict iterates: fields without a validator are skipped
RECURSIVE CollectFields(_, _, _, _, _)
CollectFields(st, data, order, iter_errors, i) ==
    IF st.raised \/ i > Len(order) THEN st
    ELSE IF order[i] \notin DOMAIN iter_errors
    THEN CollectFields(st, data, order, iter_errors, i + 1)
    ELSE CollectFields(Collect(st, iter_errors[order[i]], order[i], 1),
                       data, order, iter_errors, i + 1)

\* JSONSchemaDictValidator.validate(data)
JSONSchemaDictValidator_validate(data, order, iter_errors) ==
    IF data.t # "map" THEN [outcome |-> "ParseError", errors |-> <<>>, value |-> data]
    ELSE Outcome(CollectFields([raised |-> FALSE, errors |-> <<>>],
                               data, order, iter_errors, 1), data)

\* the violations the validators of the fields report, in the order of data
RECURSIVE Reported(_, _, _)
Reported(order, iter_errors, i) ==
    IF i > Len(order) THEN <<>>
    ELSE (IF order[i] \in DOMAIN iter_errors THEN iter_errors[order[i]] ELSE <<>>)
             \o Reported(order, iter_errors, i + 1)

\* the field each of these violations was reported under
RECURSIVE ReportedUnder(_, _, _)
ReportedUnder(order, iter_errors, i) ==
    IF i > Len(order) THEN <<>>
    ELSE (IF order[i] \in DOMAIN iter_errors
          THEN [k \in DOMAIN iter_errors[order[i]] |-> order[i]] ELSE <<>>)
             \o ReportedUnder(order, iter_errors, i + 1)

Twelve == IntV(12)

\* the values submitted to JSONSchemaValidator.validate
JSONData ==
    {Twelve, List(<<Twelve>>),
     Map([s1 |-> Twelve, s2 |-> Str("z")]),
     Map([o1 |-> Map([s2 |-> Str("z")])])}

\* JSONSchemaDictValidator(schema): self.validators has a validator for
\* each field of the mapping schema
ValidatorFields == {"a", "b"}

\* the values submitted to JSONSchemaDictValidator.validate
DictData ==
    {Str("z"),
     Map([a |-> Twelve]),
     Map([a |-> List(<<Twelve>>)]),
     Map([a |-> Twelve, z |-> Twelve]),
     Map([a |-> Twelve, b |-> Map([s1 |-> Twelve])])}

\* what the validators of the fields of data can yield
FieldReports(data) ==
    LET fs == DOMAIN data.m \cap ValidatorFields
    IN  {r \in [fs -> UNION {Reports(data.m[f]) : f \in fs}] :
             \A f \in fs : r[f] \in Reports(data.m[f])}

InitValid ==
    /\ vcall = NoCall
    /\ DeclIdle /\ ConvIdle /\ SchemaIdle /\ RenderIdle /\ AttrsIdle /\ LateIdle

ValidateJSON ==
    /\ \E data \in JSONData :
           \E exs \in Reports(data) :
               vcall' = [op |-> "validate", validator |-> "JSONSchemaValidator",
                         data |-> data, reported |-> exs,
                         under |-> [k \in DOMAIN exs |-> NoPrefix]]
                            @@ JSONSchemaValidator_validate(data, exs)
    /\ UNCHANGED <<declVars, convVars, schemas, renderVars, attrVars, lateVars>>

ValidateDict ==
    /\ \E data \in DictData :
           \/ /\ data.t # "map"
              /\ vcall' = [op |-> "validate", validator |-> "JSONSchemaDictValidator",
                           data |-> data, reported |-> <<>>, under |-> <<>>]
                              @@ JSONSchemaDictValidator_validate(data, <<>>, <<>>)
           \/ /\ data.t = "map"
              /\ \E order \in Orders(DOMAIN data.m), iter_errors \in FieldReports(data) :
                     vcall' = [op |-> "validate", validator |-> "JSONSchemaDictValidator",
                               data |-> data, reported |-> Reported(order, iter_errors, 1),
                               under |-> ReportedUnder(order, iter_errors, 1)]
                                  @@ JSONSchemaDictValidator_validate(data, order, iter_errors)
    /\ UNCHANGED <<declVars, convVars, schemas, renderVars, attrVars, lateVars>>

NextValid == ValidateJSON \/ ValidateDict

SpecValid == InitValid /\ [][NextValid]_vars

\* C20: validate(value) of either adapter returns normally exactly when the
\* validator reports no violation; otherwise it raises ValidationErrors
\* whose errors list has, in order, one entry per reported violation with
\* its message, value, invalid and against, and whose value is the value
\* submitted.
C20_ValidatorOutcome ==
    vcall.op = "validate" =>
        IF vcall.reported = <<>> THEN vcall.outcome = "returned"
        ELSE /\ vcall.outcome = "ValidationErrors"
             /\ vcall.value = vcall.data
             /\ Len(vcall.errors) = Len(vcall.reported)
             /\ \A i \in DOMAIN vcall.reported :
                    LET ex == vcall.reported[i]
                        e == vcall.errors[i]
                    IN  /\ e.message = ex.message
                        /\ e.value = ex.instance
                        /\ e.invalid = ex.schema_path[Len(ex.schema_path)]
                        /\ e.against = ex.validator_value

\* a step of a path as it reads in a dotted path: the key of a property,
\* the index of an array element
StepText(step) == IF step.t = "str" THEN step.s ELSE ToString(step.n)

\* the dotted path from the root of the submitted document to the node of
\* the i-th reported violation
DocumentPath(i) ==
    (IF vcall.validator = "JSONSchemaDictValidator" THEN <<vcall.under[i]>> ELSE <<>>)
        \o [k \in DOMAIN vcall.reported[i].path |-> StepText(vcall.reported[i].path[k])]

\* C21: when violations are reported, validate raises ValidationErrors and
\* the path of the entry of each violation is the dotted path from the root
\* of the document to the offending node (properties and array elements),
\* starting with the top-level field key for the dict validator and empty
\* for a violation at the root.
C21_ErrorPath ==
    (vcall.op = "validate" /\ vcall.reported # <<>>) =>
        /\ vcall.outcome = "ValidationErrors"
        /\ Len(vcall.errors) = Len(vcall.reported)
        /\ \A i \in DOMAIN vcall.reported : vcall.errors[i].path = DocumentPath(i)

(***************************************************************************)
(* The type rule base._validate_type_draft4 and the format checkers of     *)
(* formats, as the compiled validator applies them to one instance and one *)
(* schema fragment   {"type": ..., "format": ...}.                           *)
(*                                                                         *)
(* Native temporal values are [t |-> "date" | "datetime" | "time", s] and  *)
(* [t |-> "timedelta", n]; a datetime.datetime is a datetime.date too.  A  *)
(* float is [t |-> "float", n].  The ISO-8601 parser is the environment:   *)
(* the texts each of its functions accepts are listed.                     *)
(***************************************************************************)
DateTimeV(s) == [t |-> "datetime", s |-> s]
TimeV(s) == [t |-> "time", s |-> s]
TimeDeltaV(n) == [t |-> "timedelta", n |-> n]
FloatV(n) == [t |-> "float", n |-> n]

IsoTimeTexts == {"t1"}                 \* the texts isodate.parse_time accepts
IsoDurationTexts == {"P1D", "PT0S", "P0D"}    \* the texts isodate.parse_duration accepts
Texts == IsoDateTexts \cup IsoTimeTexts \cup IsoDurationTexts \cup {"d1Tt1", "d1Tbad", "bad"}

\* re.split('T| ', text)
Split(text) ==
    CASE text = "d1Tt1" -> <<"d1", "t1">>
      [] text = "d1Tbad" -> <<"d1", "bad">>
      [] text = "PT0S" -> <<"P", "0S">>
      [] OTHER -> <<text>>

Parsed(v) == [raised |-> "none", val |-> v]
Raised(ex) == [raised |-> ex, val |-> None]

isodate_parse_date(text) ==
    IF text \in IsoDateTexts THEN Parsed(parse_date(text)) ELSE Raised("ISO8601Error")
isodate_parse_time(text) ==
    IF text \in IsoTimeTexts THEN Parsed(TimeV(text)) ELSE Raised("ISO8601Error")
isodate_parse_duration(text) ==
    IF text \in IsoDurationTexts
    THEN Parsed(TimeDeltaV(IF text \in {"PT0S", "P0D"} THEN 0 ELSE 86400))
    ELSE Raised("ISO8601Error")

\* formats.parse_datetime: `datetime` is the module there, which has no
\* attribute combine
parse_datetime(text) ==
    LET parts == Split(text)
    IN  IF Len(parts) # 2 THEN Raised("ISO8601Error")
        ELSE IF isodate_parse_date(parts[1]).raised # "none" THEN Raised("ISO8601Error")
        ELSE IF isodate_parse_time(parts[2]).raised # "none" THEN Raised("ISO8601Error")
        ELSE Raised("AttributeError")

isinstance_date(v) == v.t \in {"date", "datetime"}
isinstance_datetime(v) == v.t = "datetime"
isinstance_time(v) == v.t = "time"
isinstance_timedelta(v) == v.t = "timedelta"
isinstance_number(v) == v.t \in {"int", "float"}
isinstance_string(v) == v.t = "str"

\* the format checkers: what the function returns (None when no branch is
\* taken) or raises
date_format_checker(instance) ==
    IF isinstance_date(instance) THEN Parsed(Bool("True"))
    ELSE IF isinstance_string(instance) THEN isodate_parse_date(instance.s)
    ELSE Parsed(None)

datetime_format_checker(instance) ==
    IF isinstance_datetime(instance) THEN Parsed(Bool("True"))
    ELSE IF isinstance_string(instance) THEN parse_datetime(instance.s)
    ELSE Parsed(None)

time_format_checker(instance) ==
    IF isinstance_datetime(instance) THEN Parsed(Bool("True"))
    ELSE IF isinstance_string(instance) THEN isodate_parse_time(instance.s)
    ELSE Parsed(None)

duration_format_checker(instance) ==
    IF isinstance_timedelta(instance) \/ isinstance_number(instance) THEN Parsed(Bool("True"))
    ELSE IF isinstance_string(instance) THEN isodate_parse_duration(instance.s)
    ELSE Parsed(None)

CheckedFormats == {"date", "datetime", "time", "duration"}

\* bool(result) of what a checker returned
Falsy(v) == v.t = "none" \/ (v.t = "timedelta" /\ v.n = 0)

\* the format keyword: FormatChecker.check calls the checker registered for
\* the format, takes the exceptions of its `raises` for a failure and fails
\* when the result is falsy; a format without checker is not checked.  The
\* outcome is [raised, errors].
FormatRule(format, instance) ==
    IF format \notin CheckedFormats THEN [raised |-> "none", errors |-> <<>>]
    ELSE LET r == CASE format = "date" -> date_format_checker(instance)
                    [] format = "datetime" -> datetime_format_checker(instance)
                    [] format = "time" -> time_format_checker(instance)
                    [] OTHER -> duration_format_checker(instance)
         IN  IF r.raised = "AttributeError" THEN [raised |-> "AttributeError", errors |-> <<>>]
             ELSE IF r.raised # "none" \/ Falsy(r.val)
             THEN [raised |-> "none",
                   errors |-> <<[invalid |-> "format", against |-> format, hint |-> ""]>>]
             ELSE [raised |-> "none", errors |-> <<>>]

\* validator.is_type(instance, type) for the types a fragment here names
is_type(instance, type) ==
    CASE type = "string" -> isinstance_string(instance)
      [] type = "null" -> instance.t = "none"
      [] OTHER -> FALSE

\* base._validate_type_draft4: the violations the type rule yields; the
\* hint names datetime.<format>
_validate_type_draft4(types, instance, fragment) ==
    LET temporal == /\ "string" \in types
                    /\ "string" \in fragment.type
                    /\ fragment.format \in {"date", "datetime", "time", "duration", "timestamp"}
        returns == \/ isinstance_string(instance)
                   \/ fragment.format = "date" /\ isinstance_date(instance)
                   \/ fragment.format = "datetime" /\ isinstance_datetime(instance)
                   \/ fragment.format = "time" /\ isinstance_time(instance)
                   \/ fragment.format = "timestamp"
                          /\ (isinstance_timedelta(instance) \/ isinstance_number(instance))
                   \/ fragment.format = "duration"
                          /\ (isinstance_timedelta(instance) \/ isinstance_number(instance))
        hinted == <<[invalid |-> "type", against |-> types, hint |-> fragment.format]>>
        plain == IF \E type \in types : is_type(instance, type) THEN <<>>
                 ELSE <<[invalid |-> "type", against |-> types, hint |-> ""]>>
    IN  IF temporal /\ returns THEN <<>>
        ELSE IF temporal THEN hinted \o plain
        ELSE plain

\* validator.iter_errors(instance) for the fragment: the type keyword, then
\* the format keyword
iter_errors(fragment, instance) ==
    LET typed == _validate_type_draft4(fragment.type, instance, fragment)
        formatted == FormatRule(fragment.format, instance)
    IN  [raised |-> formatted.raised, errors |-> typed \o formatted.errors]

Fragments ==
    {[type |-> ty, format |-> f] :
         ty \in {{"string"}, {"string", "null"}},
         f \in CheckedFormats \cup {"timestamp", "none"}}

CheckedInstances ==
    {DateV("d1"), DateTimeV("d1Tt1"), TimeV("t1"), TimeDeltaV(86400),
     IntV(12), FloatV(12), None}
        \cup {Str(text) : text \in Texts}

InitCheck ==
    /\ checked = NoCall
    /\ io = NoCall /\ threads = <<>> /\ scalar = NoCall
    /\ DeclIdle /\ ConvIdle /\ SchemaIdle /\ RenderIdle /\ AttrsIdle /\ ValidIdle

\* the compiled validator of a fragment is handed an instance
Check ==
    /\ \E fragment \in Fragments, instance \in CheckedInstances :
           checked' = [op |-> "check", schema |-> fragment, instance |-> instance]
                          @@ iter_errors(fragment, instance)
    /\ UNCHANGED <<declVars, convVars, schemas, renderVars, attrVars, vcall,
                   io, threads, scalar>>

NextCheck == Check

SpecCheck == InitCheck /\ [][NextCheck]_vars

\* the native type of a format, the values of that type and the texts the
\* ISO-8601 parser accepts for the format
NativeName(format) == IF format = "duration" THEN "timedelta" ELSE format
IsNative(format, v) == v.t = NativeName(format)
IsoAccepts(format, v) ==
    /\ v.t = "str"
    /\ CASE format = "date" -> v.s \in IsoDateTexts
         [] format = "datetime" -> /\ Len(Split(v.s)) = 2
                                   /\ Split(v.s)[1] \in IsoDateTexts
                                   /\ Split(v.s)[2] \in IsoTimeTexts
         [] format = "time" -> v.s \in IsoTimeTexts
         [] OTHER -> v.s \in IsoDurationTexts
\* the values the statement says nothing definite about: a datetime under
\* format date, a number under format duration, None under a nullable type
Unsettled(fragment, v) ==
    \/ fragment.format = "date" /\ v.t = "datetime"
    \/ fragment.format = "duration" /\ v.t \in {"int", "float"}
    \/ "null" \in fragment.type /\ v.t = "none"

\* C22: under a string-typed fragment whose format is date, datetime, time
\* or duration, validation accepts a native value of the matching type and
\* every text the ISO-8601 parser accepts for the format, and rejects every
\* other value: with an error that carries the hint of the native type when
\* the value is not a text, with some error when it is a text the parser
\* does not accept.
C22_TemporalFormats ==
    (/\ checked.op = "check"
     /\ checked.schema.format \in CheckedFormats
     /\ ~Unsettled(checked.schema, checked.instance)) =>
        IF IsNative(checked.schema.format, checked.instance)
               \/ IsoAccepts(checked.schema.format, checked.instance)
        THEN checked.raised = "none" /\ checked.errors = <<>>
        ELSE /\ checked.raised = "none"
             /\ checked.errors # <<>>
             /\ checked.instance.t # "str" =>
                    \E i \in DOMAIN checked.errors : checked.errors[i].hint # ""

TypeEntries == SelectSeq(checked.errors, LAMBDA e : e.invalid = "type")

\* C30: for every fragment and every instance the type rule yields at most
\* one violation: exactly one entry with invalid = "type" when the instance
\* is of none of the types of the fragment, under a temporal format as
\* under no format.
C30_OneTypeError ==
    checked.op = "check" =>
        /\ Len(TypeEntries) <= 1
        /\ (\A type \in checked.schema.type : ~is_type(checked.instance, type)) =>
               Len(TypeEntries) = 1

(***************************************************************************)
(* The readers and the writer of schemaio: JSONReader.read,                *)
(* JSONWriter.write, JSONFormReader.__init__ and JSONFormReader.read.      *)
(*                                                                         *)
(* A call is followed through its stages: io.stages lists the stages that  *)
(* were entered, in order, io.outcome is "returned" or the exception that  *)
(* left the call, io.val the value returned.  The JSON parser and the      *)
(* compiled validator are the environment: the documents the texts decode  *)
(* to are listed, and the validator reports what Reports allows, at least  *)
(* one violation when the type of the value is not the schema's.           *)
(***************************************************************************)
OpaqueV == [t |-> "opaque", s |-> "o"]

\* json.loads on the texts used here; every other text is no JSON document
JsonDocs ==
    [one |-> IntV(1),
     qd1 |-> Str("d1"),
     qbad |-> Str("bad"),
     obj_a_d1 |-> Map([a |-> Str("d1")]),
     obj_a_bad |-> Map([a |-> Str("bad")]),
     obj_n_1 |-> Map([n |-> IntV(1)])]

json_loads(data) ==
    IF data.t # "str" THEN Raised("TypeError")
    ELSE IF data.s \in DOMAIN JsonDocs THEN Parsed(JsonDocs[data.s])
    ELSE Raised("ValueError")

\* JSONWriter._dump_default and json.dumps: natives become their ISO text,
\* an object json cannot encode raises TypeError
RECURSIVE Encodable(_)
Encodable(v) ==
    CASE v.t = "map" -> \A k \in DOMAIN v.m : Encodable(v.m[k])
      [] v.t = "list" -> \A i \in DOMAIN v.e : Encodable(v.e[i])
      [] OTHER -> v.t \in {"str", "int", "float", "none", "date"}

RECURSIVE Encoded(_)
Encoded(v) ==
    CASE v.t = "map" -> Map([k \in DOMAIN v.m |-> Encoded(v.m[k])])
      [] v.t = "list" -> List([i \in DOMAIN v.e |-> Encoded(v.e[i])])
      [] v.t = "date" -> date_isoformat(v)
      [] OTHER -> v

_dumps(data) ==
    IF Encodable(data) THEN Parsed([t |-> "str", s |-> "json", doc |-> Encoded(data)])
    ELSE Raised("TypeError")

\* the JSON type of a value, and of the values of its known properties, is
\* the type the schema of the node names
RECURSIVE TypeMatches(_, _)
TypeMatches(node, value) ==
    CASE node.kind = "object" ->
             /\ value.t = "map"
             /\ \A i \in DOMAIN node.fields :
                    WireKey(node.fields[i]) \in DOMAIN value.m =>
                        TypeMatches(node.fields[i].node, value.m[WireKey(node.fields[i])])
      [] node.kind \in {"string", "date"} -> value.t \in {"str", "date"}
      [] node.kind = "integer" -> value.t = "int"
      [] OTHER -> TRUE

\* what the validator compiled from the schema of node can yield for value
ReportsFor(node, value) ==
    {exs \in Reports(value) : ~TypeMatches(node, value) => exs # <<>>}

Running(stages, val) == [stages |-> stages, outcome |-> "running", val |-> val]
Left(stages, ex) == [stages |-> stages, outcome |-> ex, val |-> NoResult]
Returned(stages, val) == [stages |-> stages, outcome |-> "returned", val |-> val]

\* JSONReader._validate_format
Reader_validate_format_any(data) == Parsed(data)
Reader_validate_format(data) ==
    IF data.t # "str" THEN Raised("ParseError") ELSE Parsed(data)

\* JSONReader._loads: the ValueError of json.loads becomes ParseError
_loads(data) ==
    LET doc == json_loads(data)
    IN  IF doc.raised = "ValueError" THEN Raised("ParseError") ELSE doc

\* schema.to_python / schema.to_raw as the readers and the writer call them
Converted(c) == IF c.ok THEN Parsed(c.val) ELSE Raised("ValidationErrors")

\* JSONReader.read(data); exs is what the validator yields for the parsed value
JSONReader_read(node, data, exs) ==
    LET s1 == <<"_validate_format">>
        f == Reader_validate_format(data)
    IN  IF f.raised # "none" THEN Left(s1, f.raised)
        ELSE LET s2 == Append(s1, "_loads")
                 value == _loads(data)
             IN  IF value.raised # "none" THEN Left(s2, value.raised)
                 ELSE LET s3 == Append(s2, "validate")
                          v == JSONSchemaValidator_validate(value.val, exs)
                      IN  IF v.outcome # "returned" THEN Left(s3, v.outcome)
                          ELSE LET s4 == Append(s3, "_to_python")
                                   c == Converted(to_python(node, value.val))
                               IN  IF c.raised # "none" THEN Left(s4, c.raised)
                                   ELSE Returned(s4, c.val)

\* JSONWriter.write(data); exs is what the validator yields for the raw value
JSONWriter_write(node, data, ord, exs) ==
    LET s1 == <<"_to_raw">>
        raw == Converted(to_raw(node, data, ord))
    IN  IF raw.raised # "none" THEN Left(s1, raw.raised)
        ELSE LET s2 == Append(s1, "validate")
                 v == JSONSchemaValidator_validate(raw.val, exs)
             IN  IF v.outcome # "returned" THEN Left(s2, v.outcome)
                 ELSE LET s3 == Append(s2, "_dumps")
                          text == _dumps(raw.val)
                      IN  IF text.raised # "none" THEN Left(s3, text.raised)
                          ELSE Returned(s3, text.val)

\* the nodes handed to the readers and the writer
DateField == Obj(<<>>, <<F("a", Leaf("date", <<>>))>>)
ReaderSchemas == {Leaf("string", <<>>), Leaf("date", <<>>), DateField}

ReaderData ==
    {IntV(12), None} \cup {Str(text) : text \in DOMAIN JsonDocs \cup {"text", "d1"}}

WriterData(node) ==
    IF node.kind = "object"
    THEN {Map([a |-> DateV("d1")]), Map([a |-> Str("d1")]), Map([a |-> IntV(12)]),
          Map([a |-> Str("bad")]), Map([a |-> DateV("d1"), z |-> OpaqueV]),
          Map([z |-> DateV("d2")])}
    ELSE {DateV("d1"), Str("d1"), Str("bad"), IntV(12)}

InitIO ==
    /\ io = NoCall
    /\ checked = NoCall /\ threads = <<>> /\ scalar = NoCall
    /\ DeclIdle /\ ConvIdle /\ SchemaIdle /\ RenderIdle /\ AttrsIdle /\ ValidIdle

ioRest == <<declVars, convVars, schemas, renderVars, attrVars, vcall, checked, threads, scalar>>

\* one call is followed in a behaviour: the readers and the writer keep no
\* state between calls
Read ==
    /\ io.op = "none"
    /\ \E node \in ReaderSchemas, data \in ReaderData :
           LET value == _loads(data)
               reports == IF value.raised = "none" THEN ReportsFor(node, value.val) ELSE {<<>>}
           IN  \E exs \in reports :
                   io' = [op |-> "read", schema |-> node, data |-> data,
                          parsed |-> value, reported |-> exs]
                             @@ JSONReader_read(node, data, exs)
    /\ UNCHANGED ioRest

Write ==
    /\ io.op = "none"
    /\ \E node \in ReaderSchemas :
           \E data \in WriterData(node), ord \in SetOrders :
               LET raw == Converted(to_raw(node, data, ord))
                   reports == IF raw.raised = "none" THEN ReportsFor(node, raw.val) ELSE {<<>>}
               IN  \E exs \in reports :
                       io' = [op |-> "write", schema |-> node, data |-> data,
                              parsed |-> raw, reported |-> exs]
                                 @@ JSONWriter_write(node, data, ord, exs)
    /\ UNCHANGED ioRest

\* JSONFormReader.__init__: SchemaIO.__init__ keeps the schema and the
\* validator is compiled; the kind of the node is not looked at
JSONFormReader_init(node) == [outcome |-> "returned", schema |-> node]

\* JSONFormReader._validate_format
Form_validate_format(data) ==
    IF data.t # "map" THEN Raised("ParseError") ELSE Parsed(data)

\* self.schema.fields: a property of types.Object only
HasFields(node) == node.kind = "object"

\* isinstance(prop, types.String): String and its subclasses Date, Time,
\* DateTime, Duration
IsString_plain(node) == node.kind = "string"
IsString(node) == node.kind \in {"string", "date", "time", "datetime", "duration"}

\* by_name[prop.get_attr('name', field)] = prop
by_name(node) ==
    [name \in {WireKey(node.fields[i]) : i \in DOMAIN node.fields} |->
        (CHOOSE i \in DOMAIN node.fields : WireKey(node.fields[i]) = name)]

\* the loop of JSONFormReader.read over the keys todo: the value of a known
\* field that is no String is replaced by self._loads of it.  st is
\* [raised, data].
RECURSIVE Predecode(_, _, _)
Predecode(node, todo, st) ==
    IF todo = <<>> \/ st.raised # "none" THEN st
    ELSE LET field == Head(todo)
             prop == node.fields[by_name(node)[field]].node
         IN  IF IsString(prop) THEN Predecode(node, Tail(todo), st)
             ELSE LET doc == _loads(st.data[field])
                  IN  IF doc.raised # "none"
                      THEN [raised |-> doc.raised, data |-> st.data]
                      ELSE Predecode(node, Tail(todo),
                                     [st EXCEPT !.data = Put(st.data, field, doc.val)])

\* JSONFormReader.read(data), todo being list(set(data) & set(by_name)) and
\* exs what the validator yields for the pre-decoded map; `form` is the
\* caller's map after the call and `validated` what was handed to validate
JSONFormReader_read(node, data, todo, exs) ==
    LET s1 == <<"_validate_format">>
        f == Form_validate_format(data)
        none == [form |-> data, validated |-> NoResult]
    IN  IF f.raised # "none" THEN Left(s1, f.raised) @@ none
        ELSE LET s2 == Append(s1, "fields")
                 c == copy(data.m)
             IN  IF ~HasFields(node) THEN Left(s2, "AttributeError") @@ none
                 ELSE LET s3 == Append(s2, "_loads")
                          d == Predecode(node, todo, [raised |-> "none", data |-> c.m])
                          form == IF c.alias THEN Map(d.data) ELSE data
                      IN  IF d.raised # "none"
                          THEN Left(s3, d.raised) @@ [form |-> form, validated |-> NoResult]
                          ELSE LET s4 == Append(s3, "validate")
                                   v == JSONSchemaValidator_validate(Map(d.data), exs)
                                   seen == [form |-> form, validated |-> Map(d.data)]
                               IN  IF v.outcome # "returned" THEN Left(s4, v.outcome) @@ seen
                                   ELSE LET s5 == Append(s4, "_to_python")
                                            r == Converted(to_python(node, Map(d.data)))
                                        IN  IF r.raised # "none" THEN Left(s5, r.raised) @@ seen
                                            ELSE Returned(s5, r.val) @@ seen

FormSchema ==
    Obj(<<>>, <<F("num", Leaf("integer", <<>>)),
                F("string", Leaf("string", [name |-> "NewName"])),
                F("d", Leaf("date", <<>>)),
                F("sub", Obj(<<>>, <<F("n", Leaf("integer", <<>>))>>))>>)

FormSchemas == {FormSchema, Leaf("string", <<>>), Leaf("date", <<>>)}

FormKeys == {"num", "NewName", "string", "d", "sub", "unknown"}
FormTexts == {"one", "obj_n_1", "text", "d1"}
MaxFormKeys == 2

\* the flat maps of strings handed to the form reader, and a value that is
\* no map
FormData ==
    {Str("one")} \cup
    {Map(m) : m \in UNION {[ks -> {Str(text) : text \in FormTexts}] :
                              ks \in {k \in SUBSET FormKeys : Cardinality(k) <= MaxFormKeys}}}

NewFormReader ==
    /\ io.op = "none"
    /\ \E node \in FormSchemas :
           io' = [op |-> "new_form_reader"] @@ JSONFormReader_init(node)
    /\ UNCHANGED ioRest

\* reader.read(data) on the form reader just constructed
FormRead ==
    /\ io.op = "new_form_reader"
    /\ \E data \in FormData :
           LET node == io.schema
               common == IF data.t = "map" /\ HasFields(node)
                         THEN DOMAIN data.m \cap DOMAIN by_name(node) ELSE {}
           IN  \E todo \in Orders(common) :
                   LET d == Predecode(node, todo, [raised |-> "none", data |-> data.m])
                       reports == IF data.t = "map" /\ HasFields(node) /\ d.raised = "none"
                                  THEN ReportsFor(node, Map(d.data)) ELSE {<<>>}
                   IN  \E exs \in reports :
                           io' = [op |-> "form_read", schema |-> node, data |-> data,
                                  reported |-> exs]
                                     @@ JSONFormReader_read(node, data, todo, exs)
    /\ UNCHANGED ioRest

NextIO == Read \/ Write \/ NewFormReader \/ FormRead

SpecIO == InitIO /\ [][NextIO]_vars

\* the stages of a call in the order the statement gives them
Pipeline(o) ==
    IF o = "read" THEN <<"_validate_format", "_loads", "validate", "_to_python">>
    ELSE <<"_to_raw", "validate", "_dumps">>
IsPrefix(p, q) == Len(p) <= Len(q) /\ \A i \in DOMAIN p : p[i] = q[i]
Entered(stage) == \E i \in DOMAIN io.stages : io.stages[i] = stage
Unparsable(data) == data.t # "str" \/ data.s \notin DOMAIN JsonDocs

\* C23: a read or write call enters its stages in order and stops at the
\* first one that fails: read raises ParseError for an input that is no text
\* or no JSON document, without entering validation; to_python is entered
\* only after the validator reported nothing; write serializes only after
\* to_raw succeeded and the validator reported nothing; a call that raises
\* returns no value, a call that returns went through every stage.
C23_StagesLinear ==
    io.op \in {"read", "write"} =>
        /\ io.stages # <<>> /\ IsPrefix(io.stages, Pipeline(io.op))
        /\ io.outcome = "returned" => io.stages = Pipeline(io.op)
        /\ io.outcome # "returned" => io.val = NoResult
        /\ (io.op = "read" /\ Unparsable(io.data)) =>
               io.outcome = "ParseError" /\ ~Entered("validate")
        /\ Entered("validate") => io.parsed.raised = "none"
        /\ (Entered("_to_python") \/ Entered("_dumps")) => io.reported = <<>>

C23_Witness ==
    /\ io.op = "read"
    /\ io.schema = DateField
    /\ io.reported # <<>>
    /\ io.outcome = "ValidationErrors"
    /\ io.stages = <<"_validate_format", "_loads", "validate">>

\* the known fields of the form reader's schema, by wire key
KnownField(k) ==
    \E i \in DOMAIN io.schema.fields : WireKey(io.schema.fields[i]) = k
FieldOf(k) ==
    io.schema.fields[CHOOSE i \in DOMAIN io.schema.fields : WireKey(io.schema.fields[i]) = k]
StringTyped(k) == FieldOf(k).node.kind \in {"string", "date", "time", "datetime", "duration"}

C25_FormReaderNeedsComposite ==
    (io.op \in {"new_form_reader", "form_read"} /\ io.schema.kind # "object") =>
        io.op = "new_form_reader" /\ io.outcome # "returned"

(***************************************************************************)
(* The declaration-order counter, Schema.__init__ (base.py 19-21)          *)
(***************************************************************************)

\* the value of the class attribute Schema._creation_index at import
InitialIndex == 0

\* C26: constructed one after the other, the nodes hold pairwise distinct
\* indices, a later node a strictly greater one than every earlier node,
\* and the counter is its initial value plus the number of constructions.
C26_CounterSequential ==
    /\ \A i, j \in DOMAIN nodes : i < j => nodes[i] < nodes[j]
    /\ \A i, j \in DOMAIN nodes : i # j => nodes[i] # nodes[j]
    /\ creation_index = InitialIndex + Len(nodes)

C26_Witness ==
    /\ Len(nodes) = MaxNodes
    /\ nodes[MaxNodes] = InitialIndex + MaxNodes - 1
    /\ classes # <<>>

(***************************************************************************)
(* Schema.__init__ run by several threads.  Lines 19-20 of base.py are     *)
(* three accesses of the class attribute, and the interpreter may switch   *)
(* threads between any two of them:                                        *)
(*     self._creation_index = Schema._creation_index    read               *)
(*     Schema._creation_index += 1                      read, then write   *)
(* No lock is taken.  threads[t] is thread t's position in the             *)
(* constructor (pc), the value its `+= 1` has read (tmp) and the number    *)
(* of constructions it has finished (made).  nodes receives a node's       *)
(* index when line 19 assigns it.                                          *)
(***************************************************************************)
MaxThreads == 2      \* threads constructing nodes
MaxPerThread == 2    \* constructions of one thread

Threads == 1..MaxThreads

InitThreads ==
    /\ DeclIdle /\ ConvIdle
    /\ SchemaIdle /\ RenderIdle /\ AttrsIdle /\ ValidIdle
    /\ checked = NoCall /\ io = NoCall /\ scalar = NoCall
    /\ threads = [t \in Threads |-> [pc |-> "idle", tmp |-> 0, made |-> 0]]

threadRest == <<classes, convVars, schemas, renderVars, attrVars, vcall, checked, io, scalar>>

\* line 19: self._creation_index = Schema._creation_index
AssignIndex(t) ==
    /\ threads[t].pc = "idle"
    /\ threads[t].made < MaxPerThread
    /\ nodes' = Append(nodes, creation_index)
    /\ threads' = [threads EXCEPT ![t].pc = "assigned"]
    /\ UNCHANGED <<creation_index, threadRest>>

\* line 20, the read of `Schema._creation_index += 1`
LoadCounter(t) ==
    /\ threads[t].pc = "assigned"
    /\ threads' = [threads EXCEPT ![t].pc = "loaded", ![t].tmp = creation_index]
    /\ UNCHANGED <<creation_index, nodes, threadRest>>

\* line 20, the write of `Schema._creation_index += 1`; the rest of the
\* constructor touches the instance only
StoreCounter(t) ==
    /\ threads[t].pc = "loaded"
    /\ creation_index' = threads[t].tmp + 1
    /\ threads' = [threads EXCEPT ![t].pc = "idle", ![t].made = @ + 1]
    /\ UNCHANGED <<nodes, threadRest>>

NextThreads == \E t \in Threads : AssignIndex(t) \/ LoadCounter(t) \/ StoreCounter(t)

SpecThreads == InitThreads /\ [][NextThreads]_vars

Quiescent == \A t \in DOMAIN threads : threads[t].pc = "idle"

\* C27: constructed by several threads, under every interleaving no two
\* nodes receive the same index, and once every constructor has returned
\* the counter is its initial value plus the number of constructions.
C27_CounterConcurrent ==
    threads # <<>> =>
        /\ \A i, j \in DOMAIN nodes : i # j => nodes[i] # nodes[j]
        /\ Quiescent => creation_index = InitialIndex + Len(nodes)

(***************************************************************************)
(* The conversions of the scalar leaf types (types.py 365-488).  A         *)
(* conversion gives Parsed(value) or Raised(exception).  String, Integer,  *)
(* Number and Boolean do not override the conversions of Base.             *)
(***************************************************************************)
time_isoformat(t) == Str(t.s)
datetime_isoformat(d) == Str(d.s)
\* timedelta(0) is written "P0D", a day "P1D"
duration_isoformat(d) == Str(IF d.n = 0 THEN "P0D" ELSE "P1D")

\* the exceptions the conversions catch are ISO8601Error and TypeError
Caught(r) == IF r.raised \in {"ISO8601Error", "TypeError"} THEN Raised("ValidationError") ELSE r
Parse(parser(_), value) ==
    IF isinstance_string(value) THEN Caught(parser(value.s)) ELSE Caught(Raised("TypeError"))

Time_to_python(value) ==
    IF isinstance_time(value) THEN Parsed(value) ELSE Parse(isodate_parse_time, value)
Time_to_raw(value) ==
    IF isinstance_time(value) THEN Parsed(time_isoformat(value))
    ELSE IF isinstance_string(value)
         THEN IF Time_to_python(value).raised = "none" THEN Parsed(value) ELSE Time_to_python(value)
         ELSE Raised("ValidationError")

DateTime_to_python(value) ==
    IF isinstance_datetime(value) THEN Parsed(value) ELSE Parse(parse_datetime, value)
DateTime_to_raw(value) ==
    IF isinstance_datetime(value) THEN Parsed(datetime_isoformat(value))
    ELSE IF isinstance_string(value)
         THEN IF DateTime_to_python(value).raised = "none" THEN Parsed(value)
              ELSE DateTime_to_python(value)
         ELSE Raised("ValidationError")

Duration_to_python(value) ==
    IF isinstance_number(value) THEN Parsed(TimeDeltaV(value.n))
    ELSE IF isinstance_timedelta(value) THEN Parsed(value)
    ELSE Parse(isodate_parse_duration, value)
Duration_to_raw(value) ==
    IF isinstance_timedelta(value) THEN Parsed(duration_isoformat(value))
    ELSE IF isinstance_number(value) THEN Parsed(duration_isoformat(TimeDeltaV(value.n)))
    ELSE IF isinstance_string(value)
         THEN IF Duration_to_python(value).raised = "none" THEN Parsed(value)
              ELSE Duration_to_python(value)
         ELSE Raised("ValidationError")

\* Date.to_python / Date.to_raw give an Ok / Fail record
OfDate(r) == IF r.ok THEN Parsed(r.val) ELSE Raised("ValidationError")

ScalarTypes == {"String", "Integer", "Number", "Boolean", "Date", "Time", "DateTime", "Duration"}
FormatOf(type) ==
    CASE type = "Date" -> "date" [] type = "Time" -> "time"
      [] type = "DateTime" -> "datetime" [] type = "Duration" -> "duration"
      [] OTHER -> ""

Scalar_to_raw(type, value) ==
    CASE type = "Date" -> OfDate(Date_to_raw(value))
      [] type = "Time" -> Time_to_raw(value)
      [] type = "DateTime" -> DateTime_to_raw(value)
      [] type = "Duration" -> Duration_to_raw(value)
      [] OTHER -> Parsed(Base_to_raw(value).val)

Scalar_to_python(type, value) ==
    CASE type = "Date" -> OfDate(Date_to_python(value))
      [] type = "Time" -> Time_to_python(value)
      [] type = "DateTime" -> DateTime_to_python(value)
      [] type = "Duration" -> Duration_to_python(value)
      [] OTHER -> Parsed(Base_to_python(value).val)

\* the raw form passes the validation of the type's schema fragment
\* {"type": ..., "format": ...}
RawValid(type, raw) ==
    CASE type \in {"Date", "Time", "DateTime", "Duration"} ->
             /\ isinstance_string(raw)
             /\ FormatRule(FormatOf(type), raw) = [raised |-> "none", errors |-> <<>>]
      [] type = "String" -> isinstance_string(raw)
      [] type = "Integer" -> raw.t = "int"
      [] type = "Number" -> isinstance_number(raw)
      [] OTHER -> raw.t = "bool"

ScalarValues ==
    {Str(x) : x \in Texts}
        \cup {DateV(x) : x \in IsoDateTexts} \cup {TimeV(x) : x \in IsoTimeTexts}
        \cup {DateTimeV("d1Tt1")}
        \cup {TimeDeltaV(0), TimeDeltaV(86400), IntV(0), IntV(86400), FloatV(0)}
        \cup {Bool("True"), Bool("False"), None}

InitScalar ==
    /\ DeclIdle /\ ConvIdle
    /\ SchemaIdle /\ RenderIdle /\ AttrsIdle /\ ValidIdle /\ LateIdle

scalarRest == <<declVars, convVars, schemas, renderVars, attrVars, vcall, checked, io, threads>>

\* node.to_raw(v) on a node of a scalar leaf type
ToRaw ==
    /\ scalar.op = "none"
    /\ \E type \in ScalarTypes, v \in ScalarValues :
           scalar' = [op |-> "to_raw", type |-> type, v |-> v,
                      raw |-> Scalar_to_raw(type, v), back |-> Raised("none")]
    /\ UNCHANGED scalarRest

\* node.to_python(raw) on what to_raw returned
ToPython ==
    /\ scalar.op = "to_raw"
    /\ scalar.raw.raised = "none"
    /\ scalar' = [scalar EXCEPT !.op = "to_python",
                                !.back = Scalar_to_python(scalar.type, scalar.raw.val)]
    /\ UNCHANGED scalarRest

NextScalar == ToRaw \/ ToPython

SpecScalar == InitScalar /\ [][NextScalar]_vars

\* C28: for every value v a scalar leaf type's to_raw accepts and whose raw
\* form passes validation, to_python(to_raw(v)) returns v.
C28_ScalarRoundTrip ==
    (scalar.op = "to_python" /\ RawValid(scalar.type, scalar.raw.val)) =>
        scalar.back = Parsed(scalar.v)

(***************************************************************************)
(* Item assignment on a node of a rendered tree: Schema.__setitem__        *)
(* (base.py 35-37) stores the attribute and calls self.invalidate(), which *)
(* resets the _validator and the _schema of that node (base.py 293-296).   *)
(* A node holds no reference to the composites whose tables name it.       *)
(***************************************************************************)
MutableNodes == {2, 6, 8}     \* Root.x, Inner.q and the Root instance
Assignments == {<<"title", Str("T")>>, <<"title", Str("U")>>, <<"null", TRUE>>}

\* node[name] = value
setitem(os, id, name, value) == [os EXCEPT ![id].attrs = Put(@, name, value)]

\* Base.invalidate on node id: caches is _schema or _validator
invalidate(caches, id) == [caches EXCEPT ![id] = NoSchema]

SetAttr ==
    \E id \in MutableNodes, a \in Assignments :
        /\ a[1] \in DOMAIN objs[id].attrs => objs[id].attrs[a[1]] # a[2]
        /\ objs' = setitem(objs, id, a[1], a[2])
        /\ _schema' = invalidate(_schema, id)
        /\ _validator' = invalidate(_validator, id)
        /\ call' = [op |-> "setitem", id |-> id, context |-> NoContext, val |-> NoSchema]
        /\ UNCHANGED <<_fields, declVars, convVars, schemas, attrVars, vcall, lateVars>>

\* root.get_schema() without context
GetSchemaPlain ==
    \E id \in Instances("Root") :
        LET r == get_schema(id, NoContext, _schema)
        IN  /\ _schema' = r.cache
            /\ call' = [op |-> "get_schema", id |-> id, context |-> NoContext, val |-> r.val]
            /\ UNCHANGED <<objs, _fields, _validator, declVars, convVars, schemas, attrVars, vcall, lateVars>>

NextMutate == SetAttr \/ GetSchemaPlain \/ Validate

SpecMutate == InitRender /\ [][NextMutate]_vars

\* what the node renders from the attributes the tree holds now
Fresh(id) == make_schema(id, NoContext, [i \in DOMAIN objs |-> NoSchema]).val

\* C29: the schema a composite returns, and the schema its validator is
\* compiled from, is the rendering of the attributes its tree holds at the
\* call, whatever item assignments were made on its nodes after an earlier
\* rendering.
C29_CacheCoherence ==
    call.op \in {"get_schema", "validate"} => call.val = Fresh(call.id)

====
